---------------------------- MODULE Spec2Model ----------------------------
(***************************************************************************)
(* A model of libsoundtouch/device.py: the SoundTouchDevice notification   *)
(* handler (_on_message), its listener registries, and the value objects   *)
(* the handler builds from the XML it receives.                            *)
(*                                                                         *)
(* Python values carry a tag in the field py, so that None, strings,       *)
(* exceptions and objects can be told apart.  Character data is a sequence *)
(* of one-character strings, so that str.strip() and int() are computed.   *)
(***************************************************************************)
EXTENDS Integers, Sequences, FiniteSets, TLC

(***************************************************************************)
(* Python values                                                           *)
(***************************************************************************)
None == [py |-> "None"]

Str(chars) == [py |-> "str", v |-> chars]

Raise(name) == [py |-> "raise", exc |-> name]

IsRaise(x) == x.py = "raise"

\* A local name: the expression is evaluated once and Body gets its value.
Local(value, Body(_)) == CHOOSE result \in {Body(v) : v \in {value}} : TRUE

\* The first raised exception of a sequence of evaluated expressions, in
\* evaluation order, or None when none of them raised.
RECURSIVE FirstRaise(_)
FirstRaise(values) ==
    IF Len(values) = 0 THEN None
    ELSE IF IsRaise(Head(values)) THEN Head(values)
    ELSE FirstRaise(Tail(values))

Whitespace == {" ", "\t", "\n", "\r"}

RECURSIVE lstrip(_)
lstrip(chars) ==
    IF Len(chars) > 0 /\ Head(chars) \in Whitespace THEN lstrip(Tail(chars))
    ELSE chars

RECURSIVE rstrip(_)
rstrip(chars) ==
    IF Len(chars) > 0 /\ chars[Len(chars)] \in Whitespace
    THEN rstrip(SubSeq(chars, 1, Len(chars) - 1))
    ELSE chars

\* str.strip()
strip(chars) == rstrip(lstrip(chars))

DigitValue ==
    [c \in {"0", "1", "2", "3", "4", "5", "6", "7", "8", "9"} |->
        CASE c = "0" -> 0 [] c = "1" -> 1 [] c = "2" -> 2 [] c = "3" -> 3
          [] c = "4" -> 4 [] c = "5" -> 5 [] c = "6" -> 6 [] c = "7" -> 7
          [] c = "8" -> 8 [] c = "9" -> 9]

RECURSIVE DigitsValue(_, _)
DigitsValue(chars, acc) ==
    IF Len(chars) = 0 THEN acc
    ELSE DigitsValue(Tail(chars), 10 * acc + DigitValue[Head(chars)])

AllDigits(chars) ==
    /\ Len(chars) > 0
    /\ \A i \in 1..Len(chars) : chars[i] \in DOMAIN DigitValue

\* int(text) for a str or None: a base-10 integer with an optional sign,
\* TypeError for None, ValueError for any other text.
IntOf(text) ==
    IF IsRaise(text) THEN text
    ELSE IF text = None THEN Raise("TypeError")
    ELSE LET s == strip(text.v)
             signed == Len(s) > 0 /\ Head(s) \in {"+", "-"}
             digits == IF signed THEN Tail(s) ELSE s
         IN  IF ~AllDigits(digits) THEN Raise("ValueError")
             ELSE [py |-> "int",
                   v |-> IF signed /\ Head(s) = "-"
                         THEN 0 - DigitsValue(digits, 0)
                         ELSE DigitsValue(digits, 0)]

int(text) == Local(text, LAMBDA value : IntOf(value))

(***************************************************************************)
(* xml.dom.minidom nodes                                                   *)
(***************************************************************************)
Element(name, attrs, children) ==
    [py |-> "Node", nodeType |-> "element", nodeName |-> name,
     nodeValue |-> None, attributes |-> attrs, childNodes |-> children]

Text(chars) ==
    [py |-> "Node", nodeType |-> "text", nodeName |-> "#text",
     nodeValue |-> Str(chars), attributes |-> <<>>, childNodes |-> <<>>]

Comment(chars) ==
    [py |-> "Node", nodeType |-> "comment", nodeName |-> "#comment",
     nodeValue |-> Str(chars), attributes |-> <<>>, childNodes |-> <<>>]

DocumentType(name) ==
    [py |-> "Node", nodeType |-> "doctype", nodeName |-> name,
     nodeValue |-> None, attributes |-> <<>>, childNodes |-> <<>>]

Document(children) ==
    [py |-> "Node", nodeType |-> "document", nodeName |-> "#document",
     nodeValue |-> None, attributes |-> <<>>, childNodes |-> children]

NoAttrs == <<>>

firstChild(node) ==
    IF Len(node.childNodes) = 0 THEN None ELSE Head(node.childNodes)

hasChildNodes(node) == Len(node.childNodes) > 0

\* Only Element and Document have getElementsByTagName and a usable
\* attributes map; None and the childless nodes raise AttributeError.
IsContainer(x) == x.py = "Node" /\ x.nodeType \in {"element", "document"}

HasAttributes(x) == x.py = "Node" /\ x.nodeType = "element"

\* The nodes below a list of siblings, in document order.
RECURSIVE Descendants(_)
Descendants(nodes) ==
    IF Len(nodes) = 0 THEN <<>>
    ELSE <<Head(nodes)>> \o Descendants(Head(nodes).childNodes)
                         \o Descendants(Tail(nodes))

IsNamed(node, element) == node.nodeType = "element" /\ node.nodeName = element

getElementsByTagName(xml_dom, element) ==
    SelectSeq(Descendants(xml_dom.childNodes), LAMBDA n : IsNamed(n, element))

\* Node.toxml(): the serialisation as a sequence of tokens.
EscapeChar(c) ==
    CASE c = "&" -> "&amp;" [] c = "<" -> "&lt;" [] c = ">" -> "&gt;"
      [] c = "\"" -> "&quot;" [] OTHER -> c

Escape(chars) == [i \in 1..Len(chars) |-> EscapeChar(chars[i])]

RECURSIVE AttrsXml(_, _)
AttrsXml(attrs, order) ==
    IF Len(order) = 0 THEN <<>>
    ELSE (IF Head(order) \in DOMAIN attrs
          THEN <<" ", Head(order), "=\"">> \o Escape(attrs[Head(order)])
                                         \o <<"\"">>
          ELSE <<>>) \o AttrsXml(attrs, Tail(order))

\* The attribute names of the modelled documents, in the order they are
\* written in them.
AttrOrder ==
    <<"id", "deviceID", "source", "type", "location", "sourceAccount",
      "isPresetable", "master", "senderIPAddress", "ipaddress", "role",
      "artImageStatus", "total">>

RECURSIVE toxml(_)
RECURSIVE ChildrenXml(_)
ChildrenXml(nodes) ==
    IF Len(nodes) = 0 THEN <<>>
    ELSE toxml(Head(nodes)) \o ChildrenXml(Tail(nodes))

toxml(node) ==
    CASE node.nodeType = "text" -> Escape(node.nodeValue.v)
      [] node.nodeType = "comment" -> <<"<!--">> \o node.nodeValue.v \o <<"-->">>
      [] node.nodeType = "element" ->
            <<"<", node.nodeName>> \o AttrsXml(node.attributes, AttrOrder)
            \o (IF Len(node.childNodes) = 0 THEN <<"/>">>
                ELSE <<">">> \o ChildrenXml(node.childNodes)
                             \o <<"</", node.nodeName, ">">>)
      [] OTHER -> <<>>

(***************************************************************************)
(* The DOM helpers of device.py                                            *)
(***************************************************************************)
_get_dom_attribute(xml_dom, attribute, default_value) ==
    IF ~HasAttributes(xml_dom) THEN Raise("AttributeError")
    ELSE IF attribute \in DOMAIN xml_dom.attributes
         THEN Str(xml_dom.attributes[attribute])
         ELSE default_value

_get_dom_elements(xml_dom, element) ==
    IF ~IsContainer(xml_dom) THEN Raise("AttributeError")
    ELSE [py |-> "list", items |-> getElementsByTagName(xml_dom, element)]

_get_dom_element(xml_dom, element) ==
    Local(_get_dom_elements(xml_dom, element),
          LAMBDA elements :
              IF IsRaise(elements) THEN elements
              ELSE IF Len(elements.items) > 0 THEN elements.items[1]
              ELSE None)

\* A lookup that reads the attribute of the node it is given rather than of
\* the first element of that name below it.
_get_dom_own_attribute(xml_dom, element, attribute, default_value) ==
    _get_dom_attribute(xml_dom, attribute, default_value)

_get_dom_element_attribute(xml_dom, element, attribute, default_value) ==
    Local(_get_dom_element(xml_dom, element),
          LAMBDA found :
              IF IsRaise(found) THEN found
              ELSE IF found # None
                   THEN IF attribute \in DOMAIN found.attributes
                        THEN Str(found.attributes[attribute])
                        ELSE None
                   ELSE default_value)

_get_dom_element_value(xml_dom, element, default_value) ==
    Local(_get_dom_element(xml_dom, element),
          LAMBDA found :
              IF IsRaise(found) THEN found
              ELSE IF found # None /\ firstChild(found) # None
                   THEN IF firstChild(found).nodeValue = None
                        THEN Raise("AttributeError")
                        ELSE Str(strip(firstChild(found).nodeValue.v))
                   ELSE default_value)

(***************************************************************************)
(* The value objects                                                       *)
(***************************************************************************)
TRUE_TEXT == Str(<<"t", "r", "u", "e">>)

\* An __init__: the field expressions are evaluated once, in order; the first
\* exception raised among them propagates, otherwise the object is built.
Constructed(fields, Object(_)) ==
    Local(fields,
          LAMBDA f : Local(FirstRaise(f),
                           LAMBDA failed : IF failed # None THEN failed
                                           ELSE Object(f)))

\* class Volume
Volume(xml_dom) ==
    Constructed(<<int(_get_dom_element_value(xml_dom, "actualvolume", None)),
               int(_get_dom_element_value(xml_dom, "targetvolume", None)),
               _get_dom_element_value(xml_dom, "muteenabled", None)>>,
             LAMBDA f : [py |-> "Volume", actual |-> f[1], target |-> f[2],
                         muted |-> (f[3] = TRUE_TEXT)])

\* class ContentItem
ContentItem(xml_dom) ==
    Constructed(<<_get_dom_element_value(xml_dom, "itemName", None),
               _get_dom_attribute(xml_dom, "source", None),
               _get_dom_attribute(xml_dom, "type", None),
               _get_dom_attribute(xml_dom, "location", None),
               _get_dom_attribute(xml_dom, "sourceAccount", None),
               _get_dom_attribute(xml_dom, "isPresetable", None)>>,
             LAMBDA f : [py |-> "ContentItem", name |-> f[1], source |-> f[2],
                         type |-> f[3], location |-> f[4],
                         source_account |-> f[5],
                         is_presetable |-> (f[6] = TRUE_TEXT)])

IMAGE_PRESENT ==
    Str(<<"I", "M", "A", "G", "E", "_", "P", "R", "E", "S", "E", "N", "T">>)

\* int(text) if text is not None else None
int_or_None(text) ==
    Local(text, LAMBDA value : IF value # None THEN IntOf(value) ELSE None)

\* class Status
Status(xml_dom) ==
    Constructed(<<_get_dom_element_attribute(xml_dom, "nowPlaying", "source",
                                          None),
               Local(_get_dom_element(xml_dom, "ContentItem"),
                     LAMBDA content_item :
                         IF IsRaise(content_item) THEN content_item
                         ELSE IF content_item # None
                              THEN ContentItem(content_item)
                              ELSE None),
               _get_dom_element_value(xml_dom, "track", None),
               _get_dom_element_value(xml_dom, "artist", None),
               _get_dom_element_value(xml_dom, "album", None),
               Local(_get_dom_element_attribute(xml_dom, "art",
                                                "artImageStatus", None),
                     LAMBDA image_status :
                         IF IsRaise(image_status) THEN image_status
                         ELSE IF image_status = IMAGE_PRESENT
                              THEN _get_dom_element_value(xml_dom, "art", None)
                              ELSE None),
               int_or_None(_get_dom_element_attribute(xml_dom, "time", "total",
                                                      None)),
               int_or_None(_get_dom_element_value(xml_dom, "time", None)),
               _get_dom_element_value(xml_dom, "playStatus", None),
               _get_dom_element_value(xml_dom, "shuffleSetting", None),
               _get_dom_element_value(xml_dom, "repeatSetting", None),
               _get_dom_element_value(xml_dom, "streamType", None),
               _get_dom_element_value(xml_dom, "trackID", None),
               _get_dom_element_value(xml_dom, "stationName", None),
               _get_dom_element_value(xml_dom, "description", None),
               _get_dom_element_value(xml_dom, "stationLocation", None)>>,
             LAMBDA f : [py |-> "Status", source |-> f[1],
                         content_item |-> f[2], track |-> f[3],
                         artist |-> f[4], album |-> f[5], image |-> f[6],
                         duration |-> f[7], position |-> f[8],
                         play_status |-> f[9], shuffle_setting |-> f[10],
                         repeat_setting |-> f[11], stream_type |-> f[12],
                         track_id |-> f[13], station_name |-> f[14],
                         description |-> f[15], station_location |-> f[16]])

\* class Preset
Preset(preset_dom) ==
    Constructed(<<_get_dom_element_value(preset_dom, "itemName", None),
               _get_dom_attribute(preset_dom, "id", None),
               _get_dom_element_attribute(preset_dom, "ContentItem", "source",
                                          None),
               _get_dom_element_attribute(preset_dom, "ContentItem", "type",
                                          None),
               _get_dom_element_attribute(preset_dom, "ContentItem",
                                          "location", None),
               _get_dom_element_attribute(preset_dom, "ContentItem",
                                          "sourceAccount", None),
               _get_dom_element_attribute(preset_dom, "ContentItem",
                                          "isPresetable", None),
               Local(_get_dom_element(preset_dom, "ContentItem"),
                     LAMBDA content_item :
                         IF IsRaise(content_item) THEN content_item
                         ELSE IF content_item = None
                              THEN Raise("AttributeError")
                              ELSE Str(toxml(content_item)))>>,
             LAMBDA f : [py |-> "Preset", name |-> f[1], preset_id |-> f[2],
                         source |-> f[3], type |-> f[4], location |-> f[5],
                         source_account |-> f[6],
                         is_presetable |-> (f[7] = TRUE_TEXT),
                         source_xml |-> f[8]])

\* class ZoneSlave
ZoneSlave(member_dom) ==
    Constructed(<<_get_dom_attribute(member_dom, "ipaddress", None),
               _get_dom_attribute(member_dom, "role", None)>>,
             LAMBDA f : [py |-> "ZoneSlave", device_ip |-> f[1],
                         role |-> f[2]])

\* The ZoneSlave of every member, in the order the loop appends them.
RECURSIVE ZoneSlaves(_)
ZoneSlaves(members) ==
    IF Len(members) = 0 THEN <<>>
    ELSE <<ZoneSlave(Head(members))>> \o ZoneSlaves(Tail(members))

\* class ZoneStatus
ZoneStatus(zone_dom) ==
    Constructed(<<_get_dom_element_attribute(zone_dom, "zone", "master", None),
               _get_dom_element_attribute(zone_dom, "zone", "senderIPAddress",
                                          None)>>
             \o Local(_get_dom_elements(zone_dom, "member"),
                      LAMBDA members : IF IsRaise(members) THEN <<members>>
                                       ELSE ZoneSlaves(members.items)),
             LAMBDA f : [py |-> "ZoneStatus", master_id |-> f[1],
                         master_ip |-> f[2], is_master |-> (f[2] = None),
                         slaves |-> SubSeq(f, 3, Len(f))])

\* class Network
Network(network_dom) ==
    Constructed(<<IF "type" \in DOMAIN network_dom.attributes
               THEN Str(network_dom.attributes["type"])
               ELSE Raise("KeyError"),
               _get_dom_element_value(network_dom, "macAddress", None),
               _get_dom_element_value(network_dom, "ipAddress", None)>>,
             LAMBDA f : [py |-> "Network", type |-> f[1],
                         mac_address |-> f[2], ip_address |-> f[3]])

\* The Network of every networkInfo element, in the order the loop appends
\* them.
RECURSIVE Networks(_)
Networks(network_doms) ==
    IF Len(network_doms) = 0 THEN <<>>
    ELSE <<Network(Head(network_doms))>> \o Networks(Tail(network_doms))

\* class Component
Component(component_dom) ==
    Constructed(<<_get_dom_element_value(component_dom, "componentCategory",
                                      None),
               _get_dom_element_value(component_dom, "softwareVersion", None),
               _get_dom_element_value(component_dom, "serialNumber", None)>>,
             LAMBDA f : [py |-> "Component", category |-> f[1],
                         software_version |-> f[2], serial_number |-> f[3]])

\* The Component of every component element, in the order the inner loop
\* appends them.
RECURSIVE Components(_)
Components(component_doms) ==
    IF Len(component_doms) = 0 THEN <<>>
    ELSE <<Component(Head(component_doms))>>
         \o Components(Tail(component_doms))

\* The components of every "components" element, in the order the nested
\* loops of Config.__init__ visit them.
RECURSIVE ComponentsOf(_)
ComponentsOf(groups) ==
    IF Len(groups) = 0 THEN <<>>
    ELSE Components(getElementsByTagName(Head(groups), "component"))
         \o ComponentsOf(Tail(groups))

\* The number of fields Config.__init__ reads before its lists.
ConfigScalars == 9

\* class Config
Config(xml_dom) ==
    Local(Networks(getElementsByTagName(xml_dom, "networkInfo")),
          LAMBDA networks :
    Constructed(<<_get_dom_element_attribute(xml_dom, "info", "deviceID", None),
               _get_dom_element_value(xml_dom, "name", None),
               _get_dom_element_value(xml_dom, "type", None),
               _get_dom_element_value(xml_dom, "margeAccountUUID", None),
               _get_dom_element_value(xml_dom, "moduleType", None),
               _get_dom_element_value(xml_dom, "variant", None),
               _get_dom_element_value(xml_dom, "variantMode", None),
               _get_dom_element_value(xml_dom, "countryCode", None),
               _get_dom_element_value(xml_dom, "regionCode", None)>>
             \o networks
             \o Local(_get_dom_elements(xml_dom, "components"),
                      LAMBDA groups : IF IsRaise(groups) THEN <<groups>>
                                      ELSE ComponentsOf(groups.items)),
             LAMBDA f : [py |-> "Config", device_id |-> f[1], name |-> f[2],
                         type |-> f[3], account_uuid |-> f[4],
                         module_type |-> f[5], variant |-> f[6],
                         variant_mode |-> f[7], country_code |-> f[8],
                         region_code |-> f[9],
                         networks |-> networks,
                         components |->
                             SubSeq(f, ConfigScalars + Len(networks) + 1,
                                    Len(f))]))

(***************************************************************************)
(* The frames the device pushes and the documents it serves                *)
(***************************************************************************)
TextElement(name, chars) == Element(name, NoAttrs, <<Text(chars)>>)

SPOTIFY == <<"S", "P", "O", "T", "I", "F", "Y">>

Song == <<"S", "o", "n", "g">>

VolumeNode(target, actual, mute) ==
    Element("volume", NoAttrs,
            <<TextElement("targetvolume", target),
              TextElement("actualvolume", actual),
              TextElement("muteenabled", mute)>>)

SongItem ==
    Element("ContentItem",
            [source |-> SPOTIFY, type |-> <<"t", "r", "a", "c", "k">>,
             location |-> <<"a", "b", "c">>,
             isPresetable |-> <<"t", "r", "u", "e">>],
            <<TextElement("itemName", Song)>>)

RadioItem ==
    Element("ContentItem",
            [source |-> <<"T", "U", "N", "E", "I", "N">>,
             location |-> <<"/", "s", "1">>,
             isPresetable |-> <<"t", "r", "u", "e">>],
            <<TextElement("itemName", <<"R", "a", "d", "i", "o">>)>>)

AUX == <<"A", "U", "X">>

BLUETOOTH == <<"B", "L", "U", "E", "T", "O", "O", "T", "H">>

AuxItem == Element("ContentItem", [source |-> AUX], <<>>)

PresetNode(id, children) == Element("preset", [id |-> id], children)

Updates(children) ==
    Document(<<Element("updates", [deviceID |-> <<"D", "1">>], children)>>)

\* The text frames of the web socket, by name.
Messages ==
    {"volume_36", "volume_muted", "volume_empty", "now_playing_spotify",
     "now_playing_nested", "presets_empty", "presets_three", "presets_broken",
     "zone", "info", "recents", "sdk_info", "doctype", "updates_empty",
     "malformed", "volume_no_target", "volume_then_now_playing",
     "indented_volume"}

\* minidom.parseString(message): the document of a frame, or ExpatError.
parseString(message) ==
    CASE message = "volume_36" ->
            Updates(<<Element("volumeUpdated", NoAttrs,
                <<VolumeNode(<<"3", "7">>, <<" ", "3", "6", " ">>,
                             <<"f", "a", "l", "s", "e">>)>>)>>)
      [] message = "volume_muted" ->
            Updates(<<Element("volumeUpdated", NoAttrs,
                <<VolumeNode(<<"5">>, <<"5">>, <<"t", "r", "u", "e">>)>>)>>)
      [] message = "volume_empty" ->
            Updates(<<Element("volumeUpdated", NoAttrs, <<>>)>>)
      [] message = "now_playing_spotify" ->
            Updates(<<Element("nowPlayingUpdated", [source |-> SPOTIFY],
                <<SongItem, TextElement("track", Song),
                  TextElement("artist", <<"A", "r", "t", "i", "s", "t">>)>>)>>)
      [] message = "now_playing_nested" ->
            Updates(<<Element("nowPlayingUpdated", NoAttrs,
                <<Element("nowPlaying", [deviceID |-> <<"D", "1">>,
                                         source |-> SPOTIFY],
                    <<SongItem, TextElement("track", Song),
                      Element("time", [total |-> <<"2", "3", "7">>],
                              <<Text(<<"4", "2">>)>>)>>)>>)>>)
      [] message = "presets_empty" ->
            Updates(<<Element("presetsUpdated", NoAttrs, <<>>)>>)
      [] message = "presets_three" ->
            Updates(<<Element("presetsUpdated", NoAttrs,
                <<Element("presets", NoAttrs,
                    <<PresetNode(<<"1">>,
                        <<SongItem, PresetNode(<<"2">>, <<AuxItem>>)>>)>>)>>),
                      Element("other", NoAttrs,
                        <<PresetNode(<<"3">>, <<RadioItem>>)>>)>>)
      [] message = "presets_broken" ->
            Updates(<<Element("presetsUpdated", NoAttrs,
                <<Element("presets", NoAttrs,
                    <<PresetNode(<<"1">>, <<SongItem>>),
                      PresetNode(<<"2">>, <<>>),
                      PresetNode(<<"3">>, <<RadioItem>>)>>)>>)>>)
      [] message = "zone" ->
            Updates(<<Element("zoneUpdated", NoAttrs,
                <<Element("zone", [master |-> <<"P", "U", "S", "H">>],
                    <<Element("member", [ipaddress |-> <<"9">>], <<>>)>>)>>)>>)
      [] message = "info" ->
            Updates(<<Element("infoUpdated", NoAttrs,
                <<Element("info", [deviceID |-> <<"P", "U", "S", "H">>],
                          <<>>)>>)>>)
      [] message = "recents" ->
            Updates(<<Element("recentsUpdated", NoAttrs,
                <<VolumeNode(<<"9">>, <<"9">>, <<"t", "r", "u", "e">>),
                  PresetNode(<<"4">>, <<AuxItem>>)>>)>>)
      [] message = "sdk_info" ->
            Document(<<Element("SoundTouchSdkInfo", NoAttrs,
                <<Element("volumeUpdated", NoAttrs,
                    <<VolumeNode(<<"9">>, <<"9">>,
                                 <<"t", "r", "u", "e">>)>>)>>)>>)
      [] message = "doctype" ->
            Document(<<DocumentType("updates"),
                Element("html", NoAttrs,
                    <<Element("presetsUpdated", NoAttrs,
                        <<PresetNode(<<"4">>, <<AuxItem>>)>>)>>)>>)
      [] message = "updates_empty" -> Updates(<<>>)
      [] message = "volume_no_target" ->
            Updates(<<Element("volumeUpdated", NoAttrs,
                <<Element("volume", NoAttrs,
                    <<TextElement("actualvolume", <<"5">>),
                      TextElement("muteenabled",
                                  <<"t", "r", "u", "e">>)>>)>>)>>)
      [] message = "volume_then_now_playing" ->
            Updates(<<Element("volumeUpdated", NoAttrs,
                        <<VolumeNode(<<"5">>, <<"5">>,
                                     <<"t", "r", "u", "e">>)>>),
                      Element("nowPlayingUpdated", NoAttrs,
                        <<Element("nowPlaying", [source |-> SPOTIFY],
                                  <<SongItem>>)>>)>>)
      [] message = "indented_volume" ->
            Updates(<<Text(<<" ">>),
                      Element("volumeUpdated", NoAttrs,
                        <<VolumeNode(<<"5">>, <<"5">>,
                                     <<"t", "r", "u", "e">>)>>)>>)
      [] OTHER -> Raise("ExpatError")

\* The outcomes of requests.get(".../getZone") and requests.get(".../info").
ZoneResponses == {"zone_none", "zone_two", "timeout"}

InfoResponses == {"info_d1", "info_d2", "timeout"}

\* requests.get(url, timeout=TIMEOUT) followed by minidom.parseString of
\* the response text: the document served, or the exception raised.
get(response) ==
    CASE response = "zone_none" -> Document(<<Element("zone", NoAttrs, <<>>)>>)
      [] response = "zone_two" ->
            Document(<<Element("zone", [master |-> <<"D", "1">>],
                <<Element("member", [ipaddress |-> <<"1", "0", ".", "2">>],
                          <<Text(<<"D", "2">>)>>),
                  Element("member", [ipaddress |-> <<"1", "0", ".", "3">>,
                                     role |-> <<"L">>],
                          <<Text(<<"D", "3">>)>>)>>)>>)
      [] response = "info_d1" ->
            Document(<<Element("info", [deviceID |-> <<"D", "1">>],
                <<TextElement("name", <<"K", "i", "t", "c", "h", "e", "n">>),
                  TextElement("type", <<"S", "T", "1", "0">>),
                  Element("components", NoAttrs,
                    <<Element("component", NoAttrs,
                        <<TextElement("componentCategory", <<"S", "C", "M">>),
                          TextElement("softwareVersion", <<"1", "3">>)>>)>>),
                  Element("networkInfo", [type |-> <<"S", "C", "M">>],
                    <<TextElement("macAddress", <<"A", "A">>),
                      TextElement("ipAddress", <<"1", "0", ".", "1">>)>>)>>)>>)
      [] response = "info_d2" ->
            Document(<<Element("info", [deviceID |-> <<"D", "1">>],
                <<TextElement("name", <<"O", "f", "f", "i", "c", "e">>),
                  TextElement("type", <<"S", "T", "1", "0">>),
                  Element("networkInfo", [type |-> <<"S", "M", "S", "C">>],
                    <<TextElement("macAddress", <<"A", "A">>),
                      TextElement("ipAddress", <<"1", "0", ".", "9">>)>>)>>)>>)
      [] response = "presets_two" ->
            Document(<<Element("presets", NoAttrs,
                <<PresetNode(<<"4">>, <<AuxItem>>),
                  PresetNode(<<"5">>, <<RadioItem>>)>>)>>)
      [] response = "playing_aux" ->
            Document(<<Element("nowPlaying", [source |-> AUX],
                <<Element("ContentItem",
                          [source |-> AUX, sourceAccount |-> AUX,
                           isPresetable |-> <<"t", "r", "u", "e">>],
                          <<TextElement("itemName", AUX)>>)>>)>>)
      [] response = "playing_bluetooth" ->
            Document(<<Element("nowPlaying", [source |-> BLUETOOTH],
                <<Element("ContentItem",
                          [source |-> BLUETOOTH, location |-> <<"/", "b">>,
                           type |-> <<"u", "r", "i">>],
                          <<>>),
                  TextElement("track", Song)>>)>>)
      [] response = "playing_unnamed" ->
            Document(<<Element("nowPlaying", NoAttrs,
                <<Element("ContentItem", [location |-> <<"/", "s", "1">>],
                          <<TextElement("itemName", Song)>>)>>)>>)
      [] response = "standby" ->
            Document(<<Element("nowPlaying",
                               [source |-> <<"S", "T", "A", "N", "D", "B", "Y">>],
                               <<>>)>>)
      [] OTHER -> Raise("RequestException")

(***************************************************************************)
(* SoundTouchDevice                                                        *)
(***************************************************************************)
VARIABLES
    _config, _status, _volume, _zone_status, _presets,
    _volume_updated_listeners, _status_updated_listeners,
    _presets_updated_listeners, _zone_status_updated_listeners,
    _device_info_updated_listeners,
    last,      \* the last operation: its name, its argument, the HTTP outcome
    calls,     \* the listener invocations of the last operation, in order
    http,      \* the HTTP requests of the last operation, in order
    escaped,   \* the exception the last operation let escape, or None
    _ws_client,
    threads,   \* the WebSocketThreads started, in the order of their start
    events,    \* what the threads did so far: handler and listener calls
    _snapshot,
    caller     \* the operation the application's thread is in the middle of

caches == <<_config, _status, _volume, _zone_status, _presets>>

registries ==
    <<_volume_updated_listeners, _status_updated_listeners,
      _presets_updated_listeners, _zone_status_updated_listeners,
      _device_info_updated_listeners>>

connection == <<_ws_client, threads, events>>

application == <<_snapshot, caller>>

vars ==
    <<caches, registries, last, calls, http, escaped, connection, application>>

\* The application's thread between two operations.
Idle == [op |-> "none", dom |-> None, todo |-> <<>>]

\* The callbacks an application registers.  One of them raises when it is
\* invoked.
Listeners == {"on_update", "on_update_raises"}

ListenerRaises(listener) == listener = "on_update_raises"

\* The number of registrations all registries hold together, at most: with
\* every kind of frame (MaxListeners) and with two kinds only (MaxRegistered).
MaxListeners == 2

MaxRegistered == 3

Registered ==
    Len(_volume_updated_listeners) + Len(_status_updated_listeners)
    + Len(_presets_updated_listeners) + Len(_zone_status_updated_listeners)
    + Len(_device_info_updated_listeners)

\* The listeners the loop of __run_listener reaches: all of them, or those
\* up to and including the first one that raises.
RECURSIVE Reached(_)
Reached(listeners) ==
    IF Len(listeners) = 0 THEN <<>>
    ELSE IF ListenerRaises(Head(listeners)) THEN <<Head(listeners)>>
    ELSE <<Head(listeners)>> \o Reached(Tail(listeners))

\* __run_listener(listeners, value); registry names the list passed.
__run_listener(registry, listeners, value) ==
    LET reached == Reached(listeners)
    IN  [calls |-> [i \in 1..Len(reached) |->
                       [registry |-> registry, listener |-> reached[i],
                        value |-> value]],
         raised |-> IF \E i \in 1..Len(reached) : ListenerRaises(reached[i])
                    THEN Raise("ListenerError")
                    ELSE None]

\* What the handler does with a frame, as far as the frame and the outcome
\* of its HTTP request decide it: the cached field it assigns (if any) and
\* the value assigned, whether it goes on to run that field's listeners with
\* the value, the requests made, and the exception raised before the
\* listeners run.
Ignored ==
    [field |-> "none", value |-> None, dispatch |-> FALSE, http |-> <<>>,
     raised |-> None]

Raised(exception) == [Ignored EXCEPT !.raised = exception]

Assigned(field, value) ==
    [Ignored EXCEPT !.field = field, !.value = value, !.dispatch = TRUE]

\* refresh_zone_status(), reached through zone_status(True)
refresh_zone_status(response) ==
    Local(get(response),
          LAMBDA dom :
              IF IsRaise(dom)
              THEN [Ignored EXCEPT !.http = <<"/getZone">>, !.raised = dom]
              ELSE IF Len(_get_dom_elements(dom, "member").items) > 0
                   THEN Local(ZoneStatus(dom),
                              LAMBDA zone :
                                  IF IsRaise(zone)
                                  THEN [Ignored EXCEPT !.http = <<"/getZone">>,
                                                       !.raised = zone]
                                  ELSE [Ignored EXCEPT
                                           !.http = <<"/getZone">>,
                                           !.field = "_zone_status",
                                           !.value = zone])
                   ELSE [Ignored EXCEPT !.http = <<"/getZone">>,
                                        !.field = "_zone_status",
                                        !.value = None])

\* __init_config()
__init_config(response) ==
    Local(get(response),
          LAMBDA dom :
              IF IsRaise(dom)
              THEN [Ignored EXCEPT !.http = <<"/info">>, !.raised = dom]
              ELSE Local(Config(dom),
                         LAMBDA built :
                             IF IsRaise(built)
                             THEN [Ignored EXCEPT !.http = <<"/info">>,
                                                  !.raised = built]
                             ELSE [Ignored EXCEPT !.http = <<"/info">>,
                                                  !.field = "_config",
                                                  !.value = built]))

\* A handler that dispatches on the action node whatever the first node of
\* the document is named.
is_any_root(dom) == firstChild(dom) # None

\* The test of line 86: the document's first node is named "updates".
is_updates(dom) == firstChild(dom).nodeName = "updates"

\* A handler that stores the Volume of a volumeUpdated action in the status
\* field and runs the status listeners.
on_volume_as_status(action_node) ==
    Local(Volume(firstChild(action_node)),
          LAMBDA parsed : IF IsRaise(parsed) THEN Raised(parsed)
                          ELSE Assigned("_status", parsed))

\* Lines 89-92.
on_volume_updated(action_node) ==
    Local(Volume(firstChild(action_node)),
          LAMBDA parsed : IF IsRaise(parsed) THEN Raised(parsed)
                          ELSE Assigned("_volume", parsed))

\* Lines 93-96.
on_now_playing_updated(action_node) ==
    Local(Status(action_node),
          LAMBDA parsed : IF IsRaise(parsed) THEN Raised(parsed)
                          ELSE Assigned("_status", parsed))

\* A test of the action name alone, which lets a presetsUpdated node with
\* no children rebuild the list.
is_presets_action(action, action_node) == action = "presetsUpdated"

\* The test of line 97.
is_presets_update(action, action_node) ==
    action = "presetsUpdated" /\ hasChildNodes(action_node)

\* The loop of lines 99-100: the Preset of every node in order, ending with
\* the exception of the first Preset that raised, if one did.
RECURSIVE Presets(_)
Presets(preset_doms) ==
    IF Len(preset_doms) = 0 THEN <<>>
    ELSE Local(Preset(Head(preset_doms)),
               LAMBDA preset :
                   IF IsRaise(preset) THEN <<preset>>
                   ELSE <<preset>> \o Presets(Tail(preset_doms)))

\* Lines 98-102: the list is assigned empty and filled in place, so a
\* Preset that raises leaves the presets appended before it.
on_presets_updated(dom) ==
    Local(Presets(_get_dom_elements(dom, "preset").items),
          LAMBDA built :
              Local(FirstRaise(built),
                    LAMBDA failed :
                        IF failed # None
                        THEN [Ignored EXCEPT
                                 !.field = "_presets",
                                 !.value = [py |-> "list",
                                            items |-> SubSeq(built, 1,
                                                             Len(built) - 1)],
                                 !.raised = failed]
                        ELSE Assigned("_presets",
                                      [py |-> "list", items |-> built])))

\* Lines 103-105.
on_zone_updated(response) ==
    Local(refresh_zone_status(response),
          LAMBDA refreshed : IF refreshed.raised # None THEN refreshed
                             ELSE [refreshed EXCEPT !.dispatch = TRUE])

\* A final branch taken for every remaining action name.
is_any_other(action) == TRUE

\* The test of line 106.
is_info_update(action) == action = "infoUpdated"

\* Lines 107-109.
on_info_updated(response) ==
    Local(__init_config(response),
          LAMBDA refreshed : IF refreshed.raised # None THEN refreshed
                             ELSE [refreshed EXCEPT !.dispatch = TRUE])

\* A handler that takes the action from the last child of the "updates"
\* element.
last_action_node(dom) ==
    Local(firstChild(dom),
          LAMBDA root : IF Len(root.childNodes) = 0 THEN None
                        ELSE root.childNodes[Len(root.childNodes)])

\* Line 87: action_node = dom.firstChild.firstChild
first_action_node(dom) == firstChild(firstChild(dom))

\* Lines 87-109, for the first child of the "updates" element.
on_action(dom, action_node, response) ==
    IF action_node = None THEN Raised(Raise("AttributeError"))
    ELSE IF action_node.nodeName = "volumeUpdated"
         THEN on_volume_updated(action_node)
    ELSE IF action_node.nodeName = "nowPlayingUpdated"
         THEN on_now_playing_updated(action_node)
    ELSE IF is_presets_update(action_node.nodeName, action_node)
         THEN on_presets_updated(dom)
    ELSE IF action_node.nodeName = "zoneUpdated"
         THEN on_zone_updated(response)
    ELSE IF is_info_update(action_node.nodeName)
         THEN on_info_updated(response)
    ELSE Ignored

\* _on_message(web_socket, message) up to the listener loop; response is
\* the outcome of the HTTP request the handler makes, if it makes one.
on_message(message, response) ==
    Local(parseString(message),
          LAMBDA dom :
              IF IsRaise(dom) THEN Raised(dom)
              ELSE IF ~is_updates(dom) THEN Ignored
              ELSE Local(first_action_node(dom),
                         LAMBDA action_node :
                             on_action(dom, action_node, response)))

\* The outcomes the environment can choose for the request of a frame.
ResponsesTo(message) ==
    Local(on_message(message, "timeout").http,
          LAMBDA made : IF made = <<"/getZone">> THEN ZoneResponses
                        ELSE IF made = <<"/info">> THEN InfoResponses
                        ELSE {"unused"})

\* on_message, tabulated over the frames and outcomes of the model.
RECURSIVE HandledOutcomes(_, _)
HandledOutcomes(message, responses) ==
    IF responses = {} THEN <<>>
    ELSE Local(CHOOSE r \in responses : TRUE,
               LAMBDA response :
                   (response :> on_message(message, response))
                   @@ HandledOutcomes(message, responses \ {response}))

RECURSIVE HandledMessages(_)
HandledMessages(messages) ==
    IF messages = {} THEN <<>>
    ELSE Local(CHOOSE m \in messages : TRUE,
               LAMBDA message :
                   (message :> HandledOutcomes(message, ResponsesTo(message)))
                   @@ HandledMessages(messages \ {message}))

Handled == HandledMessages(Messages)

\* The list a handler passes to __run_listener for the field it assigned.
ListenersOf(field) ==
    CASE field = "_volume" -> _volume_updated_listeners
      [] field = "_status" -> _status_updated_listeners
      [] field = "_presets" -> _presets_updated_listeners
      [] field = "_zone_status" -> _zone_status_updated_listeners
      [] field = "_config" -> _device_info_updated_listeners

\* list.append(x)
append(list, x) == Append(list, x)

\* A removal of the last item equal to x instead of the first.
remove_last(list, x) ==
    IF \E i \in 1..Len(list) : list[i] = x
    THEN LET at == CHOOSE i \in 1..Len(list) :
                       list[i] = x /\ \A j \in (i + 1)..Len(list) : list[j] # x
         IN  SubSeq(list, 1, at - 1) \o SubSeq(list, at + 1, Len(list))
    ELSE list

\* The position of the first item equal to x.
index(list, x) == CHOOSE i \in 1..Len(list) :
                      list[i] = x /\ \A j \in 1..(i - 1) : list[j] # x

\* "if x in list: list.remove(x)"
remove(list, x) ==
    IF \E i \in 1..Len(list) : list[i] = x
    THEN SubSeq(list, 1, index(list, x) - 1)
         \o SubSeq(list, index(list, x) + 1, Len(list))
    ELSE list

\* "del list[1:]", which keeps the first registration.
clear_tail(list) == IF Len(list) = 0 THEN <<>> ELSE <<Head(list)>>

\* "del list[:]"
clear(list) == <<>>

(***************************************************************************)
(* The state after SoundTouchDevice(host) returned: the config is built    *)
(* from the /info document, everything else is None or empty.              *)
(***************************************************************************)
Init ==
    /\ \E response \in InfoResponses :
          /\ ~IsRaise(get(response))
          /\ _config = Config(get(response))
    /\ _status = None
    /\ _volume = None
    /\ _zone_status = None
    /\ _presets = None
    /\ _volume_updated_listeners = <<>>
    /\ _status_updated_listeners = <<>>
    /\ _presets_updated_listeners = <<>>
    /\ _zone_status_updated_listeners = <<>>
    /\ _device_info_updated_listeners = <<>>
    /\ last = [op |-> "__init__", arg |-> "", response |-> ""]
    /\ calls = <<>>
    /\ http = <<"/info">>
    /\ escaped = None
    /\ _ws_client = None
    /\ threads = <<>>
    /\ events = <<>>
    /\ _snapshot = None
    /\ caller = Idle

\* The handler runs on a frame, from its first line to its return or to the
\* exception that leaves it.
_on_message(message, response) ==
    LET effect == Handled[message][response]
        run == IF effect.dispatch
               THEN __run_listener(effect.field, ListenersOf(effect.field),
                                   effect.value)
               ELSE [calls |-> <<>>, raised |-> effect.raised]
        Kept(field, old) == IF effect.field = field THEN effect.value ELSE old
    IN  /\ _config' = Kept("_config", _config)
        /\ _status' = Kept("_status", _status)
        /\ _volume' = Kept("_volume", _volume)
        /\ _zone_status' = Kept("_zone_status", _zone_status)
        /\ _presets' = Kept("_presets", _presets)
        /\ calls' = run.calls
        /\ http' = effect.http
        /\ escaped' = run.raised
        /\ last' = [op |-> "_on_message", arg |-> message,
                    response |-> response]
        /\ UNCHANGED <<registries, connection, application>>

\* The registry each operation works on, by the name of its cached field.
RegistryOf ==
    [add_volume_listener |-> "_volume", remove_volume_listener |-> "_volume",
     clear_volume_listeners |-> "_volume",
     add_status_listener |-> "_status", remove_status_listener |-> "_status",
     clear_status_listener |-> "_status",
     add_presets_listener |-> "_presets",
     remove_presets_listener |-> "_presets",
     clear_presets_listeners |-> "_presets",
     add_zone_status_listener |-> "_zone_status",
     remove_zone_status_listener |-> "_zone_status",
     clear_zone_status_listeners |-> "_zone_status",
     add_device_info_listener |-> "_config",
     remove_device_info_listener |-> "_config",
     clear_device_info_listeners |-> "_config"]

\* The callbacks an operation registers or unregisters: its argument, or
\* every entry of the list for a clear.
Touched(op, listener) ==
    IF listener = ""
    THEN {ListenersOf(RegistryOf[op])[i] :
              i \in 1..Len(ListenersOf(RegistryOf[op]))}
    ELSE {listener}

\* A registry operation of the application; a dispatch of the same
\* category that is running in a thread meanwhile is noted as touched.
Registry(op, listener) ==
    /\ last' = [op |-> op, arg |-> listener, response |-> ""]
    /\ calls' = <<>>
    /\ http' = <<>>
    /\ escaped' = None
    /\ threads' =
          [t \in DOMAIN threads |->
              IF threads[t].state = "dispatching"
                 /\ threads[t].field = RegistryOf[op]
              THEN [threads[t] EXCEPT
                      !.touched = @ \cup Touched(op, listener)]
              ELSE threads[t]]
    /\ UNCHANGED <<caches, _ws_client, events, application>>

add_volume_listener(listener) ==
    /\ _volume_updated_listeners' = append(_volume_updated_listeners, listener)
    /\ Registry("add_volume_listener", listener)
    /\ UNCHANGED <<_status_updated_listeners, _presets_updated_listeners,
                   _zone_status_updated_listeners,
                   _device_info_updated_listeners>>

add_status_listener(listener) ==
    /\ _status_updated_listeners' = append(_status_updated_listeners, listener)
    /\ Registry("add_status_listener", listener)
    /\ UNCHANGED <<_volume_updated_listeners, _presets_updated_listeners,
                   _zone_status_updated_listeners,
                   _device_info_updated_listeners>>

add_presets_listener(listener) ==
    /\ _presets_updated_listeners' =
          append(_presets_updated_listeners, listener)
    /\ Registry("add_presets_listener", listener)
    /\ UNCHANGED <<_volume_updated_listeners, _status_updated_listeners,
                   _zone_status_updated_listeners,
                   _device_info_updated_listeners>>

add_zone_status_listener(listener) ==
    /\ _zone_status_updated_listeners' =
          append(_zone_status_updated_listeners, listener)
    /\ Registry("add_zone_status_listener", listener)
    /\ UNCHANGED <<_volume_updated_listeners, _status_updated_listeners,
                   _presets_updated_listeners,
                   _device_info_updated_listeners>>

add_device_info_listener(listener) ==
    /\ _device_info_updated_listeners' =
          append(_device_info_updated_listeners, listener)
    /\ Registry("add_device_info_listener", listener)
    /\ UNCHANGED <<_volume_updated_listeners, _status_updated_listeners,
                   _presets_updated_listeners,
                   _zone_status_updated_listeners>>

remove_volume_listener(listener) ==
    /\ _volume_updated_listeners' = remove(_volume_updated_listeners, listener)
    /\ Registry("remove_volume_listener", listener)
    /\ UNCHANGED <<_status_updated_listeners, _presets_updated_listeners,
                   _zone_status_updated_listeners,
                   _device_info_updated_listeners>>

remove_status_listener(listener) ==
    /\ _status_updated_listeners' = remove(_status_updated_listeners, listener)
    /\ Registry("remove_status_listener", listener)
    /\ UNCHANGED <<_volume_updated_listeners, _presets_updated_listeners,
                   _zone_status_updated_listeners,
                   _device_info_updated_listeners>>

remove_presets_listener(listener) ==
    /\ _presets_updated_listeners' =
          remove(_presets_updated_listeners, listener)
    /\ Registry("remove_presets_listener", listener)
    /\ UNCHANGED <<_volume_updated_listeners, _status_updated_listeners,
                   _zone_status_updated_listeners,
                   _device_info_updated_listeners>>

remove_zone_status_listener(listener) ==
    /\ _zone_status_updated_listeners' =
          remove(_zone_status_updated_listeners, listener)
    /\ Registry("remove_zone_status_listener", listener)
    /\ UNCHANGED <<_volume_updated_listeners, _status_updated_listeners,
                   _presets_updated_listeners,
                   _device_info_updated_listeners>>

remove_device_info_listener(listener) ==
    /\ _device_info_updated_listeners' =
          remove(_device_info_updated_listeners, listener)
    /\ Registry("remove_device_info_listener", listener)
    /\ UNCHANGED <<_volume_updated_listeners, _status_updated_listeners,
                   _presets_updated_listeners,
                   _zone_status_updated_listeners>>

clear_volume_listeners ==
    /\ _volume_updated_listeners' = clear(_volume_updated_listeners)
    /\ Registry("clear_volume_listeners", "")
    /\ UNCHANGED <<_status_updated_listeners, _presets_updated_listeners,
                   _zone_status_updated_listeners,
                   _device_info_updated_listeners>>

clear_status_listener ==
    /\ _status_updated_listeners' = clear(_status_updated_listeners)
    /\ Registry("clear_status_listener", "")
    /\ UNCHANGED <<_volume_updated_listeners, _presets_updated_listeners,
                   _zone_status_updated_listeners,
                   _device_info_updated_listeners>>

clear_presets_listeners ==
    /\ _presets_updated_listeners' = clear(_presets_updated_listeners)
    /\ Registry("clear_presets_listeners", "")
    /\ UNCHANGED <<_volume_updated_listeners, _status_updated_listeners,
                   _zone_status_updated_listeners,
                   _device_info_updated_listeners>>

clear_zone_status_listeners ==
    /\ _zone_status_updated_listeners' = clear(_zone_status_updated_listeners)
    /\ Registry("clear_zone_status_listeners", "")
    /\ UNCHANGED <<_volume_updated_listeners, _status_updated_listeners,
                   _presets_updated_listeners,
                   _device_info_updated_listeners>>

clear_device_info_listeners ==
    /\ _device_info_updated_listeners' = clear(_device_info_updated_listeners)
    /\ Registry("clear_device_info_listeners", "")
    /\ UNCHANGED <<_volume_updated_listeners, _status_updated_listeners,
                   _presets_updated_listeners,
                   _zone_status_updated_listeners>>

\* The frames and operations an application and a device produce, with at
\* most MaxListeners registrations at a time.
Next ==
    \/ \E message \in Messages : \E response \in DOMAIN Handled[message] :
          _on_message(message, response)
    \/ \E listener \in Listeners :
          Registered < MaxListeners /\ add_volume_listener(listener)
    \/ \E listener \in Listeners :
          Registered < MaxListeners /\ add_status_listener(listener)
    \/ \E listener \in Listeners :
          Registered < MaxListeners /\ add_presets_listener(listener)
    \/ \E listener \in Listeners :
          Registered < MaxListeners /\ add_zone_status_listener(listener)
    \/ \E listener \in Listeners :
          Registered < MaxListeners /\ add_device_info_listener(listener)
    \/ \E listener \in Listeners : remove_volume_listener(listener)
    \/ \E listener \in Listeners : remove_status_listener(listener)
    \/ \E listener \in Listeners : remove_presets_listener(listener)
    \/ \E listener \in Listeners : remove_zone_status_listener(listener)
    \/ \E listener \in Listeners : remove_device_info_listener(listener)
    \/ clear_volume_listeners
    \/ clear_status_listener
    \/ clear_presets_listeners
    \/ clear_zone_status_listeners
    \/ clear_device_info_listeners

Spec == Init /\ [][Next]_vars

\* The same device with longer registries and two kinds of frame only: the
\* application holds up to MaxRegistered registrations at a time.
RegistryMessages == {"volume_36", "now_playing_nested"}

NextRegistry ==
    \/ \E message \in RegistryMessages :
          \E response \in DOMAIN Handled[message] :
              _on_message(message, response)
    \/ \E listener \in Listeners :
          Registered < MaxRegistered /\ add_volume_listener(listener)
    \/ \E listener \in Listeners :
          Registered < MaxRegistered /\ add_status_listener(listener)
    \/ \E listener \in Listeners :
          Registered < MaxRegistered /\ add_presets_listener(listener)
    \/ \E listener \in Listeners :
          Registered < MaxRegistered /\ add_zone_status_listener(listener)
    \/ \E listener \in Listeners :
          Registered < MaxRegistered /\ add_device_info_listener(listener)
    \/ \E listener \in Listeners : remove_volume_listener(listener)
    \/ \E listener \in Listeners : remove_status_listener(listener)
    \/ \E listener \in Listeners : remove_presets_listener(listener)
    \/ \E listener \in Listeners : remove_zone_status_listener(listener)
    \/ \E listener \in Listeners : remove_device_info_listener(listener)
    \/ clear_volume_listeners
    \/ clear_status_listener
    \/ clear_presets_listeners
    \/ clear_zone_status_listeners
    \/ clear_device_info_listeners

SpecRegistry == Init /\ [][NextRegistry]_vars

(***************************************************************************)
(* The web socket: start_notification, WebSocketThread and the frames the  *)
(* device sends on a connection                                            *)
(***************************************************************************)
\* The number of calls of start_notification, and the number of frames the
\* device sends on one connection, at most.
MaxConnections == 1

MaxFrames == 3

\* The frames sent on a connection in this specification.
ConnectionMessages == {"volume_36", "volume_muted", "malformed"}

\* WebSocketThread(self._ws_client) once started: run() has called
\* run_forever, which is opening the socket.  arrivals are the frames the
\* device sent, in order; frame is the number of the last one read.  While
\* a dispatch runs, initial is the list of listeners it started with and
\* touched are the callbacks registered or unregistered since.  While the
\* handler rebuilds the presets, todo are the elements not yet appended.
WebSocketThread ==
    [state |-> "connecting", arrivals |-> <<>>, frame |-> 0,
     field |-> "none", value |-> None, at |-> 0, error |-> None,
     initial |-> <<>>, touched |-> {}, todo |-> <<>>]

\* A start that closes the connections that exist.
restart(running) == <<WebSocketThread>>

\* ws_thread.start(): one more thread runs, beside those that run already.
start(running) == Append(running, WebSocketThread)

\* start_notification(): a new WebSocketApp is stored, a new thread is
\* started on it, and the call returns.
start_notification ==
    /\ _ws_client' = [py |-> "WebSocketApp", thread |-> Len(threads) + 1]
    /\ threads' = start(threads)
    /\ last' = [op |-> "start_notification", arg |-> "", response |-> ""]
    /\ calls' = <<>>
    /\ http' = <<>>
    /\ escaped' = None
    /\ UNCHANGED <<caches, registries, events, application>>

\* WebSocketThread.run(): run_forever opens the socket in the thread; the
\* connection is established, or the attempt fails with a transport error
\* and run_forever is over.
run(t, established) ==
    /\ threads[t].state = "connecting"
    /\ threads' = [threads EXCEPT
                      ![t].state = IF established THEN "receiving"
                                   ELSE "ended",
                      ![t].error = IF established THEN None
                                   ELSE Raise("WebSocketException")]
    /\ UNCHANGED <<caches, registries, last, calls, http, escaped,
                   _ws_client, events, application>>

\* The device sends a frame on the connection of thread t.
send(t, message) ==
    /\ threads[t].state \in {"receiving", "dispatching"}
    /\ Len(threads[t].arrivals) < MaxFrames
    /\ threads' = [threads EXCEPT ![t].arrivals = Append(@, message)]
    /\ UNCHANGED <<caches, registries, last, calls, http, escaped,
                   _ws_client, events, application>>

\* A receive loop that reads the newest frame of the socket.
recv_newest(arrivals, frame) == Len(arrivals)

\* The frame run_forever reads next: the one after the last one read.
recv(arrivals, frame) == frame + 1

\* An exception left the handler that run_forever called.  Neither run()
\* nor the handler catches it; whether the loop of the websocket library
\* goes on to the next frame or ends with the thread is decided outside
\* this source.
after_exception(survives) == IF survives THEN "receiving" ELSE "ended"

\* run_forever reads the next frame of thread t and calls _on_message,
\* which runs up to its call of __run_listener: lines 85-90, 95, 98-100,
\* 105 (the fetch), 107.
on_message_received(t, response, survives) ==
    LET thread == threads[t]
        n == recv(thread.arrivals, thread.frame)
        message == thread.arrivals[n]
        effect == Handled[message][response]
        Kept(field, old) == IF effect.field = field THEN effect.value ELSE old
    IN  /\ thread.state = "receiving"
        /\ thread.frame < Len(thread.arrivals)
        /\ response \in DOMAIN Handled[message]
        /\ _config' = Kept("_config", _config)
        /\ _status' = Kept("_status", _status)
        /\ _volume' = Kept("_volume", _volume)
        /\ _zone_status' = Kept("_zone_status", _zone_status)
        /\ _presets' = Kept("_presets", _presets)
        /\ threads' =
              [threads EXCEPT
                 ![t] = [thread EXCEPT
                           !.frame = n,
                           !.field = effect.field,
                           !.value = effect.value,
                           !.at = 1,
                           !.error = effect.raised,
                           !.initial = IF effect.dispatch
                                       THEN ListenersOf(effect.field)
                                       ELSE <<>>,
                           !.state = IF effect.dispatch THEN "dispatching"
                                     ELSE IF effect.raised # None
                                          THEN after_exception(survives)
                                          ELSE "receiving"]]
        /\ events' = Append(events,
                            [thread |-> t, frame |-> n,
                             event |-> "_on_message", of |-> message,
                             value |-> effect.value])
        /\ UNCHANGED <<registries, last, calls, http, escaped, _ws_client,
                       application>>

\* One turn of the loop of __run_listener in thread t: the loop is over, or
\* the next listener of the list is called with the value.
run_listener(t, survives) ==
    LET thread == threads[t]
        listeners == ListenersOf(thread.field)
    IN  /\ thread.state = "dispatching"
        /\ IF thread.at > Len(listeners)
           THEN /\ threads' = [threads EXCEPT ![t].state = "receiving",
                                               ![t].initial = <<>>,
                                               ![t].touched = {}]
                /\ UNCHANGED events
           ELSE /\ listeners[thread.at] \in Listeners
                /\ events' = Append(events,
                                    [thread |-> t, frame |-> thread.frame,
                                     event |-> "listener",
                                     of |-> listeners[thread.at],
                                     value |-> thread.value])
                /\ threads' =
                      IF ListenerRaises(listeners[thread.at])
                      THEN [threads EXCEPT
                              ![t].state = after_exception(survives),
                              ![t].error = Raise("ListenerError"),
                              ![t].initial = <<>>,
                              ![t].touched = {}]
                      ELSE [threads EXCEPT ![t].at = @ + 1]
        /\ UNCHANGED <<caches, registries, last, calls, http, escaped,
                       _ws_client, application>>

\* An application that starts notifications and registers volume listeners
\* while the device sends frames.
NextConnection ==
    \/ Len(threads) < MaxConnections /\ start_notification
    \/ \E t \in 1..Len(threads) : \E established \in BOOLEAN :
          run(t, established)
    \/ \E t \in 1..Len(threads) : \E message \in ConnectionMessages :
          send(t, message)
    \/ \E t \in 1..Len(threads) : \E survives \in BOOLEAN :
          on_message_received(t, "unused", survives)
    \/ \E t \in 1..Len(threads) : \E survives \in BOOLEAN :
          run_listener(t, survives)
    \/ \E listener \in Listeners :
          Registered < MaxListeners /\ add_volume_listener(listener)
    \/ \E listener \in Listeners : remove_volume_listener(listener)
    \/ clear_volume_listeners

SpecConnection == Init /\ [][NextConnection]_vars

\* The number of calls of start_notification on one device, and the number
\* of frames the device sends on each of the connections, at most.
MaxClients == 2

MaxClientFrames == 1

ClientMessages == {"volume_36", "volume_muted"}

\* An application that calls start_notification more than once.
NextClients ==
    \/ Len(threads) < MaxClients /\ start_notification
    \/ \E t \in 1..Len(threads) : \E established \in BOOLEAN :
          run(t, established)
    \/ \E t \in 1..Len(threads) : \E message \in ClientMessages :
          Len(threads[t].arrivals) < MaxClientFrames /\ send(t, message)
    \/ \E t \in 1..Len(threads) : \E survives \in BOOLEAN :
          on_message_received(t, "unused", survives)
    \/ \E t \in 1..Len(threads) : \E survives \in BOOLEAN :
          run_listener(t, survives)
    \/ \E listener \in Listeners :
          Registered < MaxListeners /\ add_volume_listener(listener)

SpecClients == Init /\ [][NextClients]_vars

(***************************************************************************)
(* The refreshes of the application's thread beside a receive thread       *)
(***************************************************************************)
\* The frame thread t reads next, or "" when none waits.
Pending(t) ==
    IF threads[t].frame < Len(threads[t].arrivals)
    THEN threads[t].arrivals[recv(threads[t].arrivals, threads[t].frame)]
    ELSE ""

\* The frames of this specification: two volumes and a list of presets.
VolumeMessages == {"volume_36", "volume_muted"}

RefreshMessages == VolumeMessages \cup {"presets_three"}

\* The device announces every change of its volume on the connection, so
\* the volume it has is the one of the last volume frame it sent, and 0
\* before the first.  This is the document it serves at /volume.
VolumeServed ==
    LET sent == IF Len(threads) = 0 THEN <<>>
                ELSE SelectSeq(threads[1].arrivals,
                               LAMBDA message : message \in VolumeMessages)
    IN  IF Len(sent) = 0
        THEN Document(<<VolumeNode(<<"0">>, <<"0">>,
                                   <<"f", "a", "l", "s", "e">>)>>)
        ELSE Document(<<firstChild(first_action_node(
                            parseString(sent[Len(sent)])))>>)

\* refresh_volume(), lines 253-255: the request is answered with the
\* volume the device has, or raises; the answer is parsed.
refresh_volume_get(answered) ==
    /\ caller = Idle
    /\ caller' = IF answered
                 THEN [op |-> "refresh_volume", dom |-> VolumeServed,
                       todo |-> <<>>]
                 ELSE Idle
    /\ last' = [op |-> "refresh_volume", arg |-> "",
                response |-> IF answered THEN "answered" ELSE "timeout"]
    /\ http' = <<"/volume">>
    /\ escaped' = IF answered THEN None ELSE Raise("RequestException")
    /\ calls' = <<>>
    /\ UNCHANGED <<caches, registries, connection, _snapshot>>

\* refresh_volume(), line 256: self._volume = Volume(dom)
refresh_volume_set ==
    LET built == Volume(caller.dom)
    IN  /\ caller.op = "refresh_volume"
        /\ _volume' = IF IsRaise(built) THEN _volume ELSE built
        /\ escaped' = IF IsRaise(built) THEN built ELSE None
        /\ caller' = Idle
        /\ last' = [op |-> "refresh_volume", arg |-> "", response |-> "set"]
        /\ UNCHANGED <<_config, _status, _zone_status, _presets, registries,
                       calls, http, connection, _snapshot>>

\* The answers of /presets in this specification.
PresetsResponses == {"presets_two", "timeout"}

\* refresh_presets(), lines 260-264, called as refresh_presets() or through
\* presets(): the document is fetched and self._presets = [] is assigned.
refresh_presets_get(op, response) ==
    LET dom == get(response)
    IN  /\ caller = Idle
        /\ _presets' = IF IsRaise(dom) THEN _presets
                       ELSE [py |-> "list", items |-> <<>>]
        /\ caller' = IF IsRaise(dom) THEN Idle
                     ELSE [op |-> op, dom |-> dom,
                           todo |-> _get_dom_elements(dom, "preset").items]
        /\ last' = [op |-> op, arg |-> "", response |-> response,
                    seen |-> None]
        /\ http' = <<"/presets">>
        /\ escaped' = IF IsRaise(dom) THEN dom ELSE None
        /\ calls' = <<>>
        /\ UNCHANGED <<_config, _status, _volume, _zone_status, registries,
                       connection, _snapshot>>

\* One turn of the loop of lines 265-266: self._presets.append(Preset(..))
\* on the list the field holds at that moment; after the last turn the
\* call returns, presets() with the list the field holds then.
refresh_presets_append ==
    /\ caller.op \in {"refresh_presets", "presets"}
    /\ IF Len(caller.todo) = 0
       THEN /\ caller' = Idle
            /\ last' = [last EXCEPT !.response = "returned",
                                    !.seen = IF caller.op = "presets"
                                             THEN _presets ELSE None]
            /\ UNCHANGED <<_presets, escaped>>
       ELSE LET preset == Preset(Head(caller.todo))
            IN  /\ _presets' = IF IsRaise(preset) THEN _presets
                               ELSE [_presets EXCEPT
                                        !.items = append(@, preset)]
                /\ caller' = IF IsRaise(preset) THEN Idle
                             ELSE [caller EXCEPT !.todo = Tail(@)]
                /\ escaped' = IF IsRaise(preset) THEN preset ELSE None
                /\ UNCHANGED last
    /\ UNCHANGED <<_config, _status, _volume, _zone_status, registries,
                   calls, http, connection, _snapshot>>

refresh_presets(response) == refresh_presets_get("refresh_presets", response)

\* presets(refresh): lines 512-514.
presets(refresh, response) ==
    IF _presets = None \/ refresh
    THEN refresh_presets_get("presets", response)
    ELSE /\ caller = Idle
         /\ last' = [op |-> "presets", arg |-> "", response |-> "returned",
                     seen |-> _presets]
         /\ http' = <<>>
         /\ escaped' = None
         /\ calls' = <<>>
         /\ UNCHANGED <<caches, registries, connection, application>>

\* _on_message on a presetsUpdated frame, lines 85-98: the frame is parsed
\* and self._presets = [] is assigned.
on_presets_received(t) ==
    LET thread == threads[t]
        n == recv(thread.arrivals, thread.frame)
        dom == parseString(thread.arrivals[n])
    IN  /\ thread.state = "receiving"
        /\ thread.frame < Len(thread.arrivals)
        /\ ~IsRaise(dom)
        /\ is_updates(dom)
        /\ first_action_node(dom) # None
        /\ is_presets_update(first_action_node(dom).nodeName,
                             first_action_node(dom))
        /\ _presets' = [py |-> "list", items |-> <<>>]
        /\ threads' =
              [threads EXCEPT
                 ![t] = [thread EXCEPT
                           !.frame = n, !.field = "_presets",
                           !.value = None, !.at = 0, !.error = None,
                           !.state = "rebuilding",
                           !.todo = _get_dom_elements(dom, "preset").items]]
        /\ events' = Append(events,
                            [thread |-> t, frame |-> n,
                             event |-> "_on_message",
                             of |-> thread.arrivals[n], value |-> None])
        /\ UNCHANGED <<_config, _status, _volume, _zone_status, registries,
                       last, calls, http, escaped, _ws_client, application>>

\* One turn of the loop of lines 99-100 in thread t; after the last turn
\* line 101 passes the list the field holds then to __run_listener.
append_preset(t, survives) ==
    LET thread == threads[t]
    IN  /\ thread.state = "rebuilding"
        /\ IF Len(thread.todo) = 0
           THEN /\ threads' =
                      [threads EXCEPT
                         ![t].state = "dispatching", ![t].value = _presets,
                         ![t].at = 1,
                         ![t].initial = _presets_updated_listeners]
                /\ UNCHANGED _presets
           ELSE LET preset == Preset(Head(thread.todo))
                IN  IF IsRaise(preset)
                    THEN /\ threads' =
                               [threads EXCEPT
                                  ![t].state = after_exception(survives),
                                  ![t].error = preset, ![t].todo = <<>>]
                         /\ UNCHANGED _presets
                    ELSE /\ _presets' = [_presets EXCEPT
                                            !.items = append(@, preset)]
                         /\ threads' = [threads EXCEPT ![t].todo = Tail(@)]
        /\ UNCHANGED <<_config, _status, _volume, _zone_status, registries,
                       last, calls, http, escaped, _ws_client, events,
                       application>>

\* The number of frames the device sends while the application refreshes.
MaxPushed == 2

\* An application that refreshes the volume and the presets and reads the
\* presets while the device sends frames on one connection.
NextRefresh ==
    \/ Len(threads) < MaxConnections /\ start_notification
    \/ \E t \in 1..Len(threads) : \E established \in BOOLEAN :
          run(t, established)
    \/ \E t \in 1..Len(threads) : \E message \in RefreshMessages :
          Len(threads[t].arrivals) < MaxPushed /\ send(t, message)
    \/ \E t \in 1..Len(threads) : \E survives \in BOOLEAN :
          /\ Pending(t) \in VolumeMessages
          /\ on_message_received(t, "unused", survives)
    \/ \E t \in 1..Len(threads) : on_presets_received(t)
    \/ \E t \in 1..Len(threads) : \E survives \in BOOLEAN :
          append_preset(t, survives)
    \/ \E t \in 1..Len(threads) : \E survives \in BOOLEAN :
          run_listener(t, survives)
    \/ \E answered \in BOOLEAN : refresh_volume_get(answered)
    \/ refresh_volume_set
    \/ \E response \in PresetsResponses : refresh_presets(response)
    \/ refresh_presets_append
    \/ \E response \in PresetsResponses : presets(FALSE, response)

SpecRefresh == Init /\ [][NextRefresh]_vars

(***************************************************************************)
(* Callbacks that read the device while they run                           *)
(***************************************************************************)
\* A callback that, when invoked, reads the cached value of its category
\* from the device: config, or the accessor with refresh=False.
ReadingListeners == {"on_update_reads"}

ListenerReads(listener) == listener \in ReadingListeners

\* The field a category caches.
cached(field) ==
    CASE field = "_volume" -> _volume
      [] field = "_status" -> _status
      [] field = "_presets" -> _presets
      [] field = "_zone_status" -> _zone_status
      [] field = "_config" -> _config

\* zone_status(False), lines 503-505: the field when it holds a zone, else
\* what a refresh fetches.
zone_status_cached(response) ==
    IF _zone_status # None
    THEN [Ignored EXCEPT !.field = "_zone_status", !.value = _zone_status]
    ELSE refresh_zone_status(response)

\* One turn of the loop of __run_listener in thread t whose callback reads
\* the device: config and the accessors of a field that holds an object
\* return the field; zone_status(False) fetches when the field is None.
read_listener(t, response, survives) ==
    LET thread == threads[t]
        listeners == ListenersOf(thread.field)
        read == IF thread.field = "_zone_status"
                THEN zone_status_cached(response)
                ELSE [Ignored EXCEPT !.field = thread.field,
                                     !.value = cached(thread.field)]
    IN  /\ thread.state = "dispatching"
        /\ thread.at <= Len(listeners)
        /\ ListenerReads(listeners[thread.at])
        /\ thread.field # "_zone_status" => cached(thread.field) # None
        /\ (thread.field = "_zone_status" /\ _zone_status # None)
              => response = "unused"
        /\ (thread.field = "_zone_status" /\ _zone_status = None)
              => response \in ZoneResponses
        /\ thread.field # "_zone_status" => response = "unused"
        /\ _zone_status' = IF thread.field = "_zone_status"
                              /\ read.raised = None
                           THEN read.value ELSE _zone_status
        /\ events' = Append(events,
                            [thread |-> t, frame |-> thread.frame,
                             event |-> "listener",
                             of |-> listeners[thread.at],
                             value |-> thread.value,
                             seen |-> IF read.raised # None THEN read.raised
                                      ELSE read.value])
        /\ threads' =
              IF read.raised # None
              THEN [threads EXCEPT
                      ![t].state = after_exception(survives),
                      ![t].error = read.raised,
                      ![t].initial = <<>>,
                      ![t].touched = {}]
              ELSE [threads EXCEPT ![t].at = @ + 1]
        /\ UNCHANGED <<_config, _status, _volume, _presets, registries, last,
                       calls, http, escaped, _ws_client, application>>

ReaderMessages == {"volume_36", "zone", "info"}

\* An application whose callbacks read the device, on one connection.
NextReader ==
    \/ Len(threads) < MaxConnections /\ start_notification
    \/ \E t \in 1..Len(threads) : \E established \in BOOLEAN :
          run(t, established)
    \/ \E t \in 1..Len(threads) : \E message \in ReaderMessages :
          Len(threads[t].arrivals) < MaxPushed /\ send(t, message)
    \/ \E t \in 1..Len(threads) : \E survives \in BOOLEAN :
          \E response \in ZoneResponses \cup InfoResponses \cup {"unused"} :
              on_message_received(t, response, survives)
    \/ \E t \in 1..Len(threads) : \E survives \in BOOLEAN :
          run_listener(t, survives)
    \/ \E t \in 1..Len(threads) : \E survives \in BOOLEAN :
          \E response \in ZoneResponses \cup {"unused"} :
              read_listener(t, response, survives)
    \/ \E listener \in ReadingListeners :
          Registered < MaxListeners /\ add_volume_listener(listener)
    \/ \E listener \in ReadingListeners :
          Registered < MaxListeners /\ add_zone_status_listener(listener)
    \/ \E listener \in ReadingListeners :
          Registered < MaxListeners /\ add_device_info_listener(listener)

SpecReader == Init /\ [][NextReader]_vars

(***************************************************************************)
(* The commands an application calls on its own thread                     *)
(***************************************************************************)
\* Config.device_ip: the address of the network of type SMSC, else of the
\* first network, else None.
device_ip(config) ==
    LET smsc == SelectSeq(config.networks,
                          LAMBDA network :
                              network.type = Str(<<"S", "M", "S", "C">>))
        chosen == IF Len(smsc) > 0 THEN Head(smsc)
                  ELSE IF Len(config.networks) > 0 THEN Head(config.networks)
                       ELSE None
    IN  IF chosen # None THEN chosen.ip_address ELSE None

\* A value inside an f-string.
format(value) == IF value = None THEN <<"None">> ELSE value.v

\* The other devices of the household, as the slaves of a zone.
Office == [py |-> "SoundTouchDevice", config |-> Config(get("info_d2"))]

Kitchen == [py |-> "SoundTouchDevice", config |-> Config(get("info_d1"))]

\* The lists an application passes as slaves, by name.
SlaveLists ==
    [no_slaves |-> <<>>, one_slave |-> <<Office>>,
     two_slaves |-> <<Office, Kitchen>>]

\* The member elements the loops of lines 324-328 and 335-339 add.
RECURSIVE members(_)
members(slaves) ==
    IF Len(slaves) = 0 THEN <<>>
    ELSE <<"<member ipaddress=\"">> \o format(device_ip(Head(slaves).config))
         \o <<"\">">> \o format(Head(slaves).config.device_id)
         \o <<"</member>">> \o members(Tail(slaves))

\* _create_zone(): the body as a sequence of tokens, or the exception.
_create_zone(config, slaves) ==
    IF Len(slaves) <= 0 THEN Raise("NoSlavesException")
    ELSE Str(<<"<zone master=\"">> \o format(config.device_id)
             \o <<"\" senderIPAddress=\"">> \o format(device_ip(config))
             \o <<"\">">> \o members(slaves) \o <<"</zone>">>)

\* A request body built without looking at the length of the list.
_get_zone_request_body_unchecked(config, slaves) ==
    Str(<<"<zone master=\"">> \o format(config.device_id) \o <<"\">">>
        \o members(slaves) \o <<"</zone>">>)

\* _get_zone_request_body()
_get_zone_request_body(config, slaves) ==
    IF Len(slaves) <= 0 THEN Raise("NoSlavesException")
    ELSE Str(<<"<zone master=\"">> \o format(config.device_id) \o <<"\">">>
             \o members(slaves) \o <<"</zone>">>)

\* requests.post(): the request is sent; it is answered, or the call
\* raises.
PostResponses == {"ok", "timeout"}

post(response) == IF response = "ok" THEN None ELSE Raise("RequestException")

\* create_zone()
create_zone(slaves, posted) ==
    LET request_body == _create_zone(_config, SlaveLists[slaves])
    IN  /\ last' = [op |-> "create_zone", arg |-> slaves, response |-> "",
                    body |-> request_body, posted |-> posted]
        /\ http' = IF IsRaise(request_body) THEN <<>> ELSE <<"/setZone">>
        /\ escaped' = IF IsRaise(request_body) THEN request_body
                      ELSE post(posted)
        /\ calls' = <<>>
        /\ UNCHANGED <<caches, registries, connection, application>>

\* Lines 364-370 and 383-390: zone_status() fetches the zone, then the
\* body is built and posted to the path.
ZoneSlaveRequest(op, path, slaves, response, posted) ==
    LET zone == refresh_zone_status(response)
        request_body ==
            IF zone.raised # None THEN zone.raised
            ELSE IF zone.value = None THEN Raise("NoExistingZoneException")
                 ELSE _get_zone_request_body(_config, SlaveLists[slaves])
    IN  /\ _zone_status' = IF zone.raised # None THEN _zone_status
                           ELSE zone.value
        /\ last' = [op |-> op, arg |-> slaves, response |-> response,
                    body |-> request_body, posted |-> posted]
        /\ http' = IF IsRaise(request_body) THEN zone.http
                   ELSE zone.http \o <<path>>
        /\ escaped' = IF IsRaise(request_body) THEN request_body
                      ELSE post(posted)
        /\ calls' = <<>>
        /\ UNCHANGED <<_config, _status, _volume, _presets, registries,
                       connection, application>>

\* add_zone_slave()
add_zone_slave(slaves, response, posted) ==
    ZoneSlaveRequest("add_zone_slave", "/addZoneSlave", slaves, response,
                     posted)

\* remove_zone_slave()
remove_zone_slave(slaves, response, posted) ==
    ZoneSlaveRequest("remove_zone_slave", "/removeZoneSlave", slaves,
                     response, posted)

\* refresh_status(), reached through status(True)
refresh_status(response) ==
    Local(get(response),
          LAMBDA dom :
              IF IsRaise(dom)
              THEN [Ignored EXCEPT !.http = <<"/now_playing">>, !.raised = dom]
              ELSE Local(Status(dom),
                         LAMBDA built :
                             IF IsRaise(built)
                             THEN [Ignored EXCEPT !.http = <<"/now_playing">>,
                                                  !.raised = built]
                             ELSE [Ignored EXCEPT !.http = <<"/now_playing">>,
                                                  !.field = "_status",
                                                  !.value = built]))

\* The documents the device serves at /now_playing in this model.
StatusResponses ==
    {"playing_aux", "playing_bluetooth", "playing_unnamed", "standby",
     "timeout"}

\* The members of Source that this file names; utils, where the enumeration
\* is declared, lists the others.  The value of a member is its name
\* (line 311 passes Source.AUX.value as the source account of AUX).
SourceMembers == {Str(AUX), Str(BLUETOOTH)}

\* Source[name]: the member of that name, or KeyError.  None is the name of
\* no member of any enumeration.
Source(name) ==
    IF name \in SourceMembers
    THEN [py |-> "Source", name |-> name.v, value |-> name]
    ELSE Raise("KeyError")

\* The order in which select_content_item adds the attributes.
SelectOrder == <<"source", "sourceAccount", "location", "type">>

\* bool(text) of a string or None
truthy(text) == text # None /\ Len(text.v) > 0

\* select_content_item(): the ContentItem element posted to /select, as a
\* sequence of tokens.
select_content_item(source, source_account, location, media_type) ==
    LET given == {<<"sourceAccount", source_account>>,
                  <<"location", location>>, <<"type", media_type>>}
        named == {"source"} \cup {pair[1] : pair \in {g \in given :
                                                         truthy(g[2])}}
        attributes ==
            [name \in named |->
                 IF name = "source" THEN source.value.v
                 ELSE (CHOOSE g \in given : g[1] = name)[2].v]
    IN  Str(<<"<", "ContentItem">> \o AttrsXml(attributes, SelectOrder)
            \o <<" />">>)

\* snapshot()
snapshot(response) ==
    LET fetched == refresh_status(response)
    IN  /\ _status' = IF fetched.raised # None THEN _status ELSE fetched.value
        /\ _snapshot' = IF fetched.raised = None
                           /\ fetched.value.content_item # None
                        THEN fetched.value.content_item
                        ELSE _snapshot
        /\ last' = [op |-> "snapshot", arg |-> "", response |-> response,
                    body |-> None, posted |-> ""]
        /\ http' = fetched.http
        /\ escaped' = fetched.raised
        /\ calls' = <<>>
        /\ UNCHANGED <<_config, _volume, _zone_status, _presets, registries,
                       connection, caller>>

\* restore()
restore(posted) ==
    LET source == IF _snapshot = None THEN None ELSE Source(_snapshot.source)
        content == IF _snapshot = None \/ IsRaise(source) THEN None
                   ELSE select_content_item(source, _snapshot.source_account,
                                            _snapshot.location,
                                            _snapshot.type)
    IN  /\ last' = [op |-> "restore", arg |-> "", response |-> "",
                    body |-> content, posted |-> posted]
        /\ http' = IF content = None THEN <<>> ELSE <<"/select">>
        /\ escaped' = IF _snapshot = None THEN None
                      ELSE IF IsRaise(source) THEN source
                           ELSE post(posted)
        /\ calls' = <<>>
        /\ UNCHANGED <<caches, registries, connection, application>>

\* An application that groups devices and saves and restores what plays.
NextCommands ==
    \/ \E slaves \in DOMAIN SlaveLists : \E posted \in PostResponses :
          create_zone(slaves, posted)
    \/ \E slaves \in DOMAIN SlaveLists : \E response \in ZoneResponses :
          \E posted \in PostResponses :
              add_zone_slave(slaves, response, posted)
    \/ \E slaves \in DOMAIN SlaveLists : \E response \in ZoneResponses :
          \E posted \in PostResponses :
              remove_zone_slave(slaves, response, posted)
    \/ \E response \in StatusResponses : snapshot(response)
    \/ \E posted \in PostResponses : restore(posted)

SpecCommands == Init /\ [][NextCommands]_vars

(***************************************************************************)
(* Properties of the handler and the registries                            *)
(***************************************************************************)
\* Document.documentElement: the root element of a document, or None.
documentElement(dom) ==
    Local(SelectSeq(dom.childNodes, LAMBDA node : node.nodeType = "element"),
          LAMBDA elements : IF Len(elements) > 0 THEN elements[1] ELSE None)

\* The root element of a frame, None for a frame that does not parse.
RootOf(message) ==
    Local(parseString(message),
          LAMBDA dom : IF IsRaise(dom) THEN None ELSE documentElement(dom))

\* The first child of the "updates" root of a frame, None for any other
\* frame and for an empty envelope.
ActionOf(message) ==
    Local(RootOf(message),
          LAMBDA root : IF root = None \/ root.nodeName # "updates" THEN None
                        ELSE firstChild(root))

\* The envelopes whose action node is an element of the given name.
ActionNamed(name) ==
    {message \in Messages :
        Local(ActionOf(message),
              LAMBDA action : action # None /\ IsNamed(action, name))}

\* The invocations of a dispatch that reaches every listener: one per
\* registration, in registration order, each with the value.
EachOnce(registry, listeners, value) ==
    [i \in 1..Len(listeners) |->
        [registry |-> registry, listener |-> listeners[i], value |-> value]]

IsPrefix(s, t) ==
    /\ Len(s) <= Len(t)
    /\ \A i \in 1..Len(s) : s[i] = t[i]

\* The number of positions of a sequence that hold x.
Count(s, x) == Cardinality({i \in 1..Len(s) : s[i] = x})

\* The last step was _on_message on the frame.
Handling(message) == last.op = "_on_message" /\ last.arg = message

(***************************************************************************)
(* C1                                                                      *)
(***************************************************************************)
\* The volumeUpdated envelopes whose payload parses to a Volume.
ValidVolumeFrames ==
    {message \in ActionNamed("volumeUpdated") :
        ~IsRaise(Volume(firstChild(ActionOf(message))))}

\* C1: after a valid volumeUpdated envelope the cached volume is the Volume
\* parsed from the action node's first child, and every callback of the
\* volume registry was invoked exactly once with it, in registration order.
C1_VolumeUpdated ==
    \A message \in ValidVolumeFrames :
        Handling(message) =>
            /\ _volume = Volume(firstChild(ActionOf(message)))
            /\ calls = EachOnce("_volume", _volume_updated_listeners, _volume)

\* C1: a volume envelope was handled with a raising callback registered
\* first: the volume is cached, the callback after it was not invoked.
C1_SecondListenerSkipped ==
    /\ Handling("volume_36")
    /\ _volume = Volume(firstChild(ActionOf("volume_36")))
    /\ _volume_updated_listeners = <<"on_update_raises", "on_update">>
    /\ Len(calls) = 1
    /\ escaped = Raise("ListenerError")

(***************************************************************************)
(* C2                                                                      *)
(***************************************************************************)
\* The frames that parse and whose root element is not named "updates".
OtherRootFrames ==
    {message \in Messages :
        Local(RootOf(message),
              LAMBDA root : root # None /\ root.nodeName # "updates")}

\* C2: handling a frame whose root element is not named "updates" changes
\* no cached value and invokes no listener of any category.
C2_OtherRootIgnored ==
    [][(last'.op = "_on_message" /\ last'.arg \in OtherRootFrames)
          => (caches' = caches /\ calls' = <<>>)]_vars

\* C2: a frame with another root that carries a volumeUpdated element was
\* handled while a volume was cached and a volume listener registered.
C2_OtherRootHandled ==
    /\ Handling("sdk_info")
    /\ "sdk_info" \in OtherRootFrames
    /\ _volume # None
    /\ _volume_updated_listeners # <<>>

(***************************************************************************)
(* C3                                                                      *)
(***************************************************************************)
\* The presetsUpdated envelopes whose action node has no child nodes.
ChildlessPresetsFrames ==
    {message \in ActionNamed("presetsUpdated") :
        ~hasChildNodes(ActionOf(message))}

\* C3: handling a presetsUpdated action node with no child nodes keeps every
\* cached value, the preset list included, and invokes no listener.
C3_ChildlessPresetsNoOp ==
    [][(last'.op = "_on_message" /\ last'.arg \in ChildlessPresetsFrames)
          => (caches' = caches /\ calls' = <<>>)]_vars

\* C3: a childless presetsUpdated was handled while a non-empty preset list
\* was cached and a presets listener registered.
C3_ChildlessPresetsHandled ==
    /\ Handling("presets_empty")
    /\ "presets_empty" \in ChildlessPresetsFrames
    /\ _presets # None
    /\ Len(_presets.items) > 0
    /\ _presets_updated_listeners # <<>>

(***************************************************************************)
(* C4                                                                      *)
(***************************************************************************)
\* The presetsUpdated envelopes whose action node has child nodes.
PresetsFrames ==
    {message \in ActionNamed("presetsUpdated") :
        hasChildNodes(ActionOf(message))}

\* The "preset" elements of a frame's document, in document order.
PresetElements(message) == getElementsByTagName(parseString(message), "preset")

\* C4: after a presetsUpdated action node with children the cached preset
\* list holds exactly one Preset per "preset" element of the document, in
\* document order, and every presets listener was invoked once with it.
C4_PresetsRebuilt ==
    \A message \in PresetsFrames :
        Handling(message) =>
            /\ _presets # None
            /\ Len(_presets.items) = Len(PresetElements(message))
            /\ \A i \in 1..Len(_presets.items) :
                  _presets.items[i] = Preset(PresetElements(message)[i])
            /\ calls = EachOnce("_presets", _presets_updated_listeners,
                                _presets)

\* C4: a document of three "preset" elements, the second without a
\* ContentItem, left a list of one Preset in the cache and no listener was
\* invoked.
C4_PartialListCached ==
    /\ Handling("presets_broken")
    /\ Len(PresetElements("presets_broken")) = 3
    /\ _presets # None
    /\ Len(_presets.items) = 1
    /\ _presets_updated_listeners = <<"on_update">>
    /\ calls = <<>>
    /\ escaped = Raise("AttributeError")

(***************************************************************************)
(* C5                                                                      *)
(***************************************************************************)
\* The envelope of the scenario: the nowPlayingUpdated action node itself
\* carries source="SPOTIFY" and contains a ContentItem with
\* isPresetable="true" and itemName "Song".
IsSpotifyScenario(message) ==
    Local(ActionOf(message),
          LAMBDA action :
              /\ action # None
              /\ IsNamed(action, "nowPlayingUpdated")
              /\ _get_dom_attribute(action, "source", None) = Str(SPOTIFY)
              /\ Local(_get_dom_element(action, "ContentItem"),
                       LAMBDA item :
                           /\ item # None
                           /\ _get_dom_attribute(item, "isPresetable", None)
                                 = TRUE_TEXT
                           /\ _get_dom_element_value(item, "itemName", None)
                                 = Str(Song)))

ScenarioFrames == {message \in Messages : IsSpotifyScenario(message)}

FetchedZone(response) ==
    IF Len(getElementsByTagName(get(response), "member")) > 0
    THEN ZoneStatus(get(response))
    ELSE None

\* C6: after a zoneUpdated event whose fetch is served, exactly one
\* zone-status request was made, the fetched ZoneStatus (None without
\* members) is the cached zone status, and every zone listener was invoked
\* once with that value.
C6_ZoneFetched ==
    \A message \in ActionNamed("zoneUpdated") :
        (Handling(message) /\ ~IsRaise(get(last.response))) =>
            /\ http = <<"/getZone">>
            /\ _zone_status = FetchedZone(last.response)
            /\ calls = EachOnce("_zone_status", _zone_status_updated_listeners,
                                _zone_status)

\* C6: a zoneUpdated event fetched a zone of two members and cached it; the
\* first zone listener raised and the one after it was not invoked.
C6_SecondListenerSkipped ==
    /\ Handling("zone")
    /\ last.response = "zone_two"
    /\ http = <<"/getZone">>
    /\ _zone_status = FetchedZone("zone_two")
    /\ _zone_status_updated_listeners = <<"on_update_raises", "on_update">>
    /\ Len(calls) = 1
    /\ escaped = Raise("ListenerError")

(***************************************************************************)
(* C7                                                                      *)
(***************************************************************************)
\* C7: after an infoUpdated event whose fetch is served, one device-info
\* request was made, the cached config is the Config built from the fetched
\* document, and every device-info listener was invoked once with it.
C7_InfoFetched ==
    \A message \in ActionNamed("infoUpdated") :
        (Handling(message) /\ ~IsRaise(get(last.response))) =>
            /\ http = <<"/info">>
            /\ _config = Config(get(last.response))
            /\ calls = EachOnce("_config", _device_info_updated_listeners,
                                _config)

\* C7: an infoUpdated event fetched and cached a new Config; the first
\* device-info listener raised and the one after it was not invoked.
C7_SecondListenerSkipped ==
    /\ Handling("info")
    /\ last.response = "info_d2"
    /\ http = <<"/info">>
    /\ _config = Config(get("info_d2"))
    /\ _device_info_updated_listeners = <<"on_update_raises", "on_update">>
    /\ Len(calls) = 1
    /\ escaped = Raise("ListenerError")

(***************************************************************************)
(* C8                                                                      *)
(***************************************************************************)
ActionNames ==
    {"volumeUpdated", "nowPlayingUpdated", "presetsUpdated", "zoneUpdated",
     "infoUpdated"}

\* The envelopes whose first child has another tag name than the five.
UnknownActionFrames ==
    {message \in Messages :
        Local(ActionOf(message),
              LAMBDA action : /\ action # None
                              /\ action.nodeType = "element"
                              /\ action.nodeName \notin ActionNames)}

\* C8: handling an envelope whose first child has a tag name other than the
\* five action names changes no cached value, issues no request and invokes
\* no listener.
C8_UnknownActionIgnored ==
    [][(last'.op = "_on_message" /\ last'.arg \in UnknownActionFrames)
          => (caches' = caches /\ http' = <<>> /\ calls' = <<>>)]_vars

\* C8: an envelope with an unknown action was handled while a config and a
\* volume were cached and a device-info listener registered.
C8_UnknownActionHandled ==
    /\ Handling("recents")
    /\ "recents" \in UnknownActionFrames
    /\ _volume # None
    /\ _device_info_updated_listeners # <<>>
    /\ escaped = None

(***************************************************************************)
(* C9                                                                      *)
(***************************************************************************)
\* A step of an add operation appended its argument to the end of its own
\* list.
Appends ==
    /\ last'.op = "add_volume_listener" =>
          _volume_updated_listeners'
              = Append(_volume_updated_listeners, last'.arg)
    /\ last'.op = "add_status_listener" =>
          _status_updated_listeners'
              = Append(_status_updated_listeners, last'.arg)
    /\ last'.op = "add_presets_listener" =>
          _presets_updated_listeners'
              = Append(_presets_updated_listeners, last'.arg)
    /\ last'.op = "add_zone_status_listener" =>
          _zone_status_updated_listeners'
              = Append(_zone_status_updated_listeners, last'.arg)
    /\ last'.op = "add_device_info_listener" =>
          _device_info_updated_listeners'
              = Append(_device_info_updated_listeners, last'.arg)

\* The state follows an event of the volume or of the status category: the
\* handler cached a value and went on to dispatch it.
VolumeEvent == last.op = "_on_message" /\ last.arg \in ValidVolumeFrames

StatusEvent ==
    /\ last.op = "_on_message"
    /\ last.arg \in ActionNamed("nowPlayingUpdated")
    /\ ~IsRaise(Status(ActionOf(last.arg)))

\* A callback registered k times in the category of the event was invoked k
\* times, at the positions at which it is registered.
InvokedAsRegistered ==
    /\ VolumeEvent =>
          /\ \A listener \in Listeners :
                Count([i \in 1..Len(calls) |-> calls[i].listener], listener)
                    = Count(_volume_updated_listeners, listener)
          /\ [i \in 1..Len(calls) |-> calls[i].listener]
                = _volume_updated_listeners
    /\ StatusEvent =>
          /\ \A listener \in Listeners :
                Count([i \in 1..Len(calls) |-> calls[i].listener], listener)
                    = Count(_status_updated_listeners, listener)
          /\ [i \in 1..Len(calls) |-> calls[i].listener]
                = _status_updated_listeners

\* C9: registering a callback appends it to the end of its category's list,
\* duplicates included, and a callback registered k times is invoked k times
\* per event of the category, at the positions at which it was registered.
C9_RegisteredInvoked == [][Appends /\ InvokedAsRegistered']_vars

\* C9: a callback registered twice after a raising one was not invoked by a
\* volume event.
C9_DuplicateNotInvoked ==
    /\ VolumeEvent
    /\ _volume_updated_listeners
          = <<"on_update_raises", "on_update", "on_update">>
    /\ Count([i \in 1..Len(calls) |-> calls[i].listener], "on_update") = 0
    /\ escaped = Raise("ListenerError")

(***************************************************************************)
(* C10                                                                     *)
(***************************************************************************)
\* after is before without its first item equal to x: the items in front of
\* it and the items behind it keep their order.
FirstRemoved(before, after, x) ==
    \E i \in 1..Len(before) :
        /\ before[i] = x
        /\ \A j \in 1..(i - 1) : before[j] # x
        /\ Len(after) = Len(before) - 1
        /\ \A j \in 1..(i - 1) : after[j] = before[j]
        /\ \A j \in i..Len(after) : after[j] = before[j + 1]

Unregistered(before, after, x) ==
    IF Count(before, x) = 0 THEN after = before
    ELSE FirstRemoved(before, after, x)

\* C10: a remove operation takes the first occurrence of its argument out of
\* its category's list and leaves the later duplicates and the order of the
\* other registrations; for a callback that is not registered it raises
\* nothing and leaves the list unchanged; the other lists are unchanged.
C10_FirstOccurrenceRemoved ==
    [][/\ last'.op = "remove_volume_listener" =>
             /\ Unregistered(_volume_updated_listeners,
                             _volume_updated_listeners', last'.arg)
             /\ escaped' = None
             /\ UNCHANGED <<_status_updated_listeners,
                            _presets_updated_listeners,
                            _zone_status_updated_listeners,
                            _device_info_updated_listeners>>
       /\ last'.op = "remove_status_listener" =>
             /\ Unregistered(_status_updated_listeners,
                             _status_updated_listeners', last'.arg)
             /\ escaped' = None
             /\ UNCHANGED <<_volume_updated_listeners,
                            _presets_updated_listeners,
                            _zone_status_updated_listeners,
                            _device_info_updated_listeners>>
       /\ last'.op = "remove_presets_listener" =>
             /\ Unregistered(_presets_updated_listeners,
                             _presets_updated_listeners', last'.arg)
             /\ escaped' = None
             /\ UNCHANGED <<_volume_updated_listeners,
                            _status_updated_listeners,
                            _zone_status_updated_listeners,
                            _device_info_updated_listeners>>
       /\ last'.op = "remove_zone_status_listener" =>
             /\ Unregistered(_zone_status_updated_listeners,
                             _zone_status_updated_listeners', last'.arg)
             /\ escaped' = None
             /\ UNCHANGED <<_volume_updated_listeners,
                            _status_updated_listeners,
                            _presets_updated_listeners,
                            _device_info_updated_listeners>>
       /\ last'.op = "remove_device_info_listener" =>
             /\ Unregistered(_device_info_updated_listeners,
                             _device_info_updated_listeners', last'.arg)
             /\ escaped' = None
             /\ UNCHANGED <<_volume_updated_listeners,
                            _status_updated_listeners,
                            _presets_updated_listeners,
                            _zone_status_updated_listeners>>]_vars

\* C10: a callback registered before and after another one was removed once:
\* the other one now comes first and the later duplicate is still there.
C10_LaterDuplicateKept ==
    /\ last.op = "remove_volume_listener"
    /\ last.arg = "on_update"
    /\ _volume_updated_listeners = <<"on_update_raises", "on_update">>


(***************************************************************************)
(* C11                                                                     *)
(***************************************************************************)
\* The clear operations, each with the position of its list in registries.
ClearOperations ==
    ("clear_volume_listeners" :> 1) @@ ("clear_status_listener" :> 2)
    @@ ("clear_presets_listeners" :> 3)
    @@ ("clear_zone_status_listeners" :> 4)
    @@ ("clear_device_info_listeners" :> 5)

\* The nowPlayingUpdated envelopes whose action node parses to a Status.
ValidStatusFrames ==
    {message \in ActionNamed("nowPlayingUpdated") :
        ~IsRaise(Status(ActionOf(message)))}

\* The presetsUpdated envelopes with children whose "preset" elements all
\* parse to a Preset.
ValidPresetsFrames ==
    {message \in PresetsFrames :
        \A i \in 1..Len(PresetElements(message)) :
            ~IsRaise(Preset(PresetElements(message)[i]))}

\* The Preset of every "preset" element of a document, in document order.
PresetsOf(message) ==
    Local(PresetElements(message),
          LAMBDA elements :
              [py |-> "list",
               items |-> [i \in 1..Len(elements) |-> Preset(elements[i])]])

\* Each valid event paired with the value its handler is to cache: the
\* value parsed from the frame, or built from the document fetched.
ParsedVolumes ==
    {<<message, Volume(firstChild(ActionOf(message)))>> :
        message \in ValidVolumeFrames}

ParsedStatuses ==
    {<<message, Status(ActionOf(message))>> : message \in ValidStatusFrames}

ParsedPresets ==
    {<<message, PresetsOf(message)>> : message \in ValidPresetsFrames}

ZoneFrames == ActionNamed("zoneUpdated")

InfoFrames == ActionNamed("infoUpdated")

\* The outcomes of a fetch that serve a document.
ServedZones == {response \in ZoneResponses : ~IsRaise(get(response))}

ServedInfos == {response \in InfoResponses : ~IsRaise(get(response))}

FetchedZones ==
    {<<response, FetchedZone(response)>> : response \in ServedZones}

FetchedConfigs ==
    {<<response, Config(get(response))>> : response \in ServedInfos}

\* A step of a clear operation empties the list of its own category and
\* leaves the other four lists and the caches as they were.
ClearEmptiesOwn ==
    last'.op \in DOMAIN ClearOperations =>
        /\ registries'[ClearOperations[last'.op]] = <<>>
        /\ \A i \in 1..5 :
              i # ClearOperations[last'.op] => registries'[i] = registries[i]
        /\ caches' = caches
        /\ escaped' = None

\* A step that handles an event of a category whose list is empty assigns
\* the category's cached field and invokes no callback.
EmptyListEvent ==
    last'.op = "_on_message" =>
        /\ (last'.arg \in ValidVolumeFrames /\ _volume_updated_listeners = <<>>)
              => /\ <<last'.arg, _volume'>> \in ParsedVolumes
                 /\ calls' = <<>> /\ escaped' = None
        /\ (last'.arg \in ValidStatusFrames /\ _status_updated_listeners = <<>>)
              => /\ <<last'.arg, _status'>> \in ParsedStatuses
                 /\ calls' = <<>> /\ escaped' = None
        /\ (last'.arg \in ValidPresetsFrames
               /\ _presets_updated_listeners = <<>>)
              => /\ <<last'.arg, _presets'>> \in ParsedPresets
                 /\ calls' = <<>> /\ escaped' = None
        /\ (last'.arg \in ZoneFrames
               /\ last'.response \in ServedZones
               /\ _zone_status_updated_listeners = <<>>)
              => /\ <<last'.response, _zone_status'>> \in FetchedZones
                 /\ calls' = <<>> /\ escaped' = None
        /\ (last'.arg \in InfoFrames
               /\ last'.response \in ServedInfos
               /\ _device_info_updated_listeners = <<>>)
              => /\ <<last'.response, _config'>> \in FetchedConfigs
                 /\ calls' = <<>> /\ escaped' = None

\* C11: a clear operation empties the listener list of its own category and
\* of no other category; an event of a category whose list is empty still
\* updates the category's cache and invokes no callback.
C11_ClearedCategorySilent == [][ClearEmptiesOwn /\ EmptyListEvent]_vars

\* C11: the volume listeners were cleared while a status listener stayed
\* registered and a volume was cached.
C11_VolumeListenersCleared ==
    /\ last.op = "clear_volume_listeners"
    /\ _volume_updated_listeners = <<>>
    /\ _status_updated_listeners = <<"on_update">>
    /\ _volume # None

(***************************************************************************)
(* C12                                                                     *)
(***************************************************************************)
\* C12: when a callback raised during the dispatch of an event, the
\* callbacks registered after it in the same category were invoked for the
\* event as well, and the exception did not leave the handler.
C12_LaterCallbacksRun ==
    (/\ last.op = "_on_message"
     /\ \E i \in 1..Len(calls) : ListenerRaises(calls[i].listener))
        => /\ Len(calls) = Len(ListenersOf(calls[1].registry))
           /\ escaped = None

\* C12: a status event was dispatched to a raising callback registered
\* before another one: the loop stopped at the first, and the exception
\* left the handler.
C12_RaisedEndsDispatch ==
    /\ Handling("now_playing_nested")
    /\ _status_updated_listeners = <<"on_update_raises", "on_update">>
    /\ calls = <<[registry |-> "_status", listener |-> "on_update_raises",
                  value |-> _status]>>
    /\ escaped = Raise("ListenerError")

(***************************************************************************)
(* C14                                                                     *)
(***************************************************************************)
\* C14: when the fetch made for a zoneUpdated or infoUpdated event fails
\* with a transport error, the handler catches it: no exception leaves
\* _on_message.
C14_FetchErrorCaught ==
    (/\ last.op = "_on_message"
     /\ last.arg \in ZoneFrames \cup InfoFrames
     /\ IsRaise(get(last.response)))
        => escaped = None

\* C14: the zone-status fetch of a zoneUpdated event timed out while a zone
\* listener was registered: the transport error left the handler.
C14_FetchErrorEscapes ==
    /\ Handling("zone")
    /\ last.response = "timeout"
    /\ http = <<"/getZone">>
    /\ _zone_status_updated_listeners # <<>>
    /\ calls = <<>>
    /\ escaped = Raise("RequestException")

(***************************************************************************)
(* C17                                                                     *)
(***************************************************************************)
\* The values a complete parse or a served fetch builds for a cached field.
Complete(built) == {pair[2] : pair \in built}

\* C17: every step leaves each cached field either at its previous value or
\* at a value built completely from one parse (volume, status, the preset
\* list of a document whose "preset" elements all parse) or from one served
\* fetch (zone status, config).
C17_CacheWholeOrKept ==
    [][/\ _volume' = _volume \/ _volume' \in Complete(ParsedVolumes)
       /\ _status' = _status \/ _status' \in Complete(ParsedStatuses)
       /\ _presets' = _presets \/ _presets' \in Complete(ParsedPresets)
       /\ _zone_status' = _zone_status
             \/ _zone_status' \in Complete(FetchedZones)
       /\ _config' = _config \/ _config' \in Complete(FetchedConfigs)]_vars

\* C17: a presetsUpdated document whose second "preset" element does not
\* parse was handled: the cache holds the list of the one Preset parsed
\* before it, which is the list of no document.
C17_PartialPresetsLeft ==
    /\ Handling("presets_broken")
    /\ _presets = [py |-> "list",
                   items |-> <<Preset(PresetElements("presets_broken")[1])>>]
    /\ IsRaise(Preset(PresetElements("presets_broken")[2]))
    /\ _presets \notin Complete(ParsedPresets)
    /\ escaped = Raise("AttributeError")

(***************************************************************************)
(* C19                                                                     *)
(***************************************************************************)
\* The envelopes with no child node, and those whose action node is a
\* volumeUpdated element with no child node.
EmptyFrames ==
    {message \in Messages :
        Local(RootOf(message),
              LAMBDA root :
                  /\ root # None
                  /\ root.nodeName = "updates"
                  /\ \/ ~hasChildNodes(root)
                     \/ /\ IsNamed(firstChild(root), "volumeUpdated")
                        /\ ~hasChildNodes(firstChild(root)))}

\* C19: handling an envelope with no child node, or a volumeUpdated action
\* node with no child, raises no error, changes no cached value and invokes
\* no listener.
C19_EmptyFrameNoOp ==
    [][(last'.op = "_on_message" /\ last'.arg \in EmptyFrames)
          => (escaped' = None /\ caches' = caches /\ calls' = <<>>)]_vars

\* C19: a volumeUpdated action node with no child was handled while a
\* volume was cached and a volume listener registered: an AttributeError
\* left the handler.
C19_EmptyFrameRaises ==
    /\ Handling("volume_empty")
    /\ EmptyFrames = {"volume_empty", "updates_empty"}
    /\ _volume # None
    /\ _volume_updated_listeners # <<>>
    /\ calls = <<>>
    /\ escaped = Raise("AttributeError")

(***************************************************************************)
(* C18                                                                     *)
(***************************************************************************)
\* The envelopes with more than one child node.
MultiChildFrames ==
    {message \in Messages :
        Local(RootOf(message),
              LAMBDA root : /\ root # None
                            /\ root.nodeName = "updates"
                            /\ Len(root.childNodes) > 1)}

\* The cached field of each category, by the name of its action node, and
\* the position of each field in caches.
ActionFields ==
    ("volumeUpdated" :> "_volume") @@ ("nowPlayingUpdated" :> "_status")
    @@ ("presetsUpdated" :> "_presets") @@ ("zoneUpdated" :> "_zone_status")
    @@ ("infoUpdated" :> "_config")

FieldPositions ==
    ("_config" :> 1) @@ ("_status" :> 2) @@ ("_volume" :> 3)
    @@ ("_zone_status" :> 4) @@ ("_presets" :> 5)

\* Each envelope of several children paired with the field of the category
\* its first child names; no pair for a first child that names none.
SelectedByFirstChild ==
    {<<message, ActionFields[ActionOf(message).nodeName]>> :
        message \in {m \in MultiChildFrames :
                        /\ ActionOf(m).nodeType = "element"
                        /\ ActionOf(m).nodeName \in DOMAIN ActionFields}}

\* C18: handling an envelope with more than one child changes no cached
\* field and invokes no listener of any category but the one named by the
\* first child, whatever the later children are named.
C18_FirstChildSelects ==
    [][(last'.op = "_on_message" /\ last'.arg \in MultiChildFrames)
          => \A field \in DOMAIN FieldPositions :
                <<last'.arg, field>> \notin SelectedByFirstChild
                   => /\ caches'[FieldPositions[field]]
                            = caches[FieldPositions[field]]
                      /\ \A i \in 1..Len(calls') :
                            calls'[i].registry # field]_vars

\* C18: an envelope holding a volumeUpdated and then a nowPlayingUpdated
\* child was handled with a listener registered in both categories: the
\* volume listener was invoked, the status was not cached.
C18_SecondChildIgnored ==
    /\ Handling("volume_then_now_playing")
    /\ <<"volume_then_now_playing", "_volume">> \in SelectedByFirstChild
    /\ _volume_updated_listeners # <<>>
    /\ _status_updated_listeners # <<>>
    /\ _status = None
    /\ Len(calls) = 1
    /\ calls[1].registry = "_volume"

(***************************************************************************)
(* C20                                                                     *)
(***************************************************************************)
\* The text of a numeric field is absent from the payload of a frame.
AbsentNumber(message, element) ==
    _get_dom_element_value(firstChild(ActionOf(message)), element, None)
        = None

\* The volumeUpdated envelopes with a payload that lacks the text of
\* actualvolume or of targetvolume.
AbsentNumberFrames ==
    {message \in ActionNamed("volumeUpdated") :
        /\ hasChildNodes(ActionOf(message))
        /\ \/ AbsentNumber(message, "actualvolume")
           \/ AbsentNumber(message, "targetvolume")}

\* C20: building the Volume of a payload without the text of actualvolume
\* or targetvolume raises nothing and yields a Volume whose field is None
\* where the text is absent.
C20_AbsentNumberIsNone ==
    \A message \in AbsentNumberFrames :
        Handling(message) =>
            /\ escaped = None
            /\ _volume # None
            /\ AbsentNumber(message, "actualvolume") => _volume.actual = None
            /\ AbsentNumber(message, "targetvolume") => _volume.target = None

\* C20: a volume payload with actualvolume 5 and no targetvolume element
\* was handled: int(None) raised TypeError and no Volume was built.
C20_AbsentNumberRaises ==
    /\ Handling("volume_no_target")
    /\ "volume_no_target" \in AbsentNumberFrames
    /\ IsRaise(Volume(firstChild(ActionOf("volume_no_target"))))
    /\ _volume_updated_listeners # <<>>
    /\ calls = <<>>
    /\ escaped = Raise("TypeError")

(***************************************************************************)
(* C13                                                                     *)
(***************************************************************************)
\* The frames that do not parse.
UnparseableFrames == {message \in Messages : IsRaise(parseString(message))}

C15_ConnectErrorSurfaced ==
    \A t \in 1..Len(threads) :
        (/\ threads[t].state = "ended"
         /\ threads[t].error = Raise("WebSocketException")
         /\ last.op = "start_notification"
         /\ _ws_client.thread = t)
            => IsRaise(escaped)

\* C15: start_notification returned normally and the connection attempt of
\* its thread failed afterwards, inside the thread.
C15_ConnectErrorInThread ==
    /\ Len(threads) = 1
    /\ threads[1].state = "ended"
    /\ threads[1].error = Raise("WebSocketException")
    /\ threads[1].arrivals = <<>>
    /\ last.op = "start_notification"
    /\ escaped = None

(***************************************************************************)
(* C16                                                                     *)
(***************************************************************************)
\* What thread t did so far, in order.
EventsOf(t) == SelectSeq(events, LAMBDA e : e.thread = t)

\* The events of one thread are those of its frames one after the other:
\* every frame read was handled once, as the n-th frame that arrived, none
\* was skipped, and each listener call of a frame comes after the handler
\* cached the frame's value and before any event of a later frame.
InArrivalOrder(done, arrivals, read) ==
    /\ \A i \in 1..Len(done) :
          /\ done[i].frame \in 1..read
          /\ \A j \in (i + 1)..Len(done) :
                /\ done[i].frame <= done[j].frame
                /\ done[j].event = "_on_message"
                      => done[i].frame < done[j].frame
          /\ done[i].event = "listener"
                => \E j \in 1..(i - 1) :
                      /\ done[j].event = "_on_message"
                      /\ done[j].frame = done[i].frame
                      /\ done[j].value = done[i].value
    /\ \A n \in 1..read :
          \E i \in 1..Len(done) :
              /\ done[i].event = "_on_message"
              /\ done[i].frame = n
              /\ done[i].of = arrivals[n]

\* C16: the frames of a connection are dispatched one at a time and in
\* arrival order: the cache update and the listener calls of a frame come
\* before those of the next frame, and no frame is skipped, merged with
\* another one or handled twice.
C16_OneFrameAtATime ==
    \A t \in 1..Len(threads) :
        InArrivalOrder(EventsOf(t), threads[t].arrivals, threads[t].frame)

\* C16: a connection delivered a volume frame, a frame that does not parse
\* and a second volume frame; a listener was called for the first and for
\* the third, and the cache holds the volume of the third.
C16_ThreeFramesDispatched ==
    /\ Len(threads) = 1
    /\ threads[1].arrivals = <<"volume_36", "malformed", "volume_muted">>
    /\ threads[1].frame = 3
    /\ threads[1].state = "receiving"
    /\ \E i \in 1..Len(events) :
          events[i].event = "listener" /\ events[i].frame = 1
    /\ \E i \in 1..Len(events) :
          events[i].event = "listener" /\ events[i].frame = 3
    /\ _volume = Volume(firstChild(ActionOf("volume_muted")))

(***************************************************************************)
(* C26                                                                     *)
(***************************************************************************)
\* Each envelope whose action node names a category, paired with the cached
\* field of that category.
CategoryOfFrame ==
    {<<message, ActionFields[ActionOf(message).nodeName]>> :
        message \in {m \in Messages :
                        /\ ActionOf(m) # None
                        /\ ActionOf(m).nodeType = "element"
                        /\ ActionOf(m).nodeName \in DOMAIN ActionFields}}

\* The fields whose handler fetches a document.
FetchedFields == {"_zone_status", "_config"}

\* C26: a step of the handler changes no listener registry; it changes no
\* cached field and invokes no listener of a category other than the one of
\* the frame's action node, and it issues a request only for a zoneUpdated
\* or infoUpdated action.
C26_OnlyOwnCategory ==
    [][last'.op = "_on_message"
          => /\ registries' = registries
             /\ \A field \in DOMAIN FieldPositions :
                   <<last'.arg, field>> \notin CategoryOfFrame
                      => /\ caches'[FieldPositions[field]]
                               = caches[FieldPositions[field]]
                         /\ \A i \in 1..Len(calls') :
                               calls'[i].registry # field
             /\ (\A field \in FetchedFields :
                    <<last'.arg, field>> \notin CategoryOfFrame)
                   => http' = <<>>]_vars

\* C26: a volumeUpdated event was handled while a status and a preset list
\* were cached and a status listener was registered next to a volume
\* listener: one call was made, to the volume listener, and no request.
C26_VolumeEventAlone ==
    /\ Handling("volume_muted")
    /\ <<"volume_muted", "_volume">> \in CategoryOfFrame
    /\ _status # None
    /\ _presets # None
    /\ _status_updated_listeners # <<>>
    /\ _volume_updated_listeners # <<>>
    /\ Len(calls) = 1
    /\ calls[1].registry = "_volume"
    /\ http = <<>>


(***************************************************************************)
(* C21: the zone commands refuse an empty slave list and a missing zone    *)
(***************************************************************************)
ZoneRequests == {"/setZone", "/addZoneSlave", "/removeZoneSlave"}

NoZoneRequest(requests) ==
    \A i \in 1..Len(requests) : requests[i] \notin ZoneRequests

EmptySlaveLists ==
    {slaves \in DOMAIN SlaveLists : Len(SlaveLists[slaves]) = 0}

\* The answers of /getZone that describe a device without a zone, and with
\* one.
NoZoneResponses ==
    {response \in ServedZones :
        Len(getElementsByTagName(get(response), "member")) = 0}

ZoneExistsResponses == ServedZones \ NoZoneResponses

\* C21: create_zone with an empty slave list raises NoSlavesException;
\* add_zone_slave and remove_zone_slave raise NoExistingZoneException when
\* the device reports no zone, whatever the slave list, and
\* NoSlavesException when it reports a zone and the slave list is empty; in
\* each of these cases no setZone, addZoneSlave or removeZoneSlave request
\* is sent.
C21_ZoneErrorsSendNothing ==
    [][/\ (last'.op = "create_zone" /\ last'.arg \in EmptySlaveLists)
            => /\ escaped' = Raise("NoSlavesException")
               /\ NoZoneRequest(http')
       /\ last'.op \in {"add_zone_slave", "remove_zone_slave"}
            => /\ last'.response \in NoZoneResponses
                    => /\ escaped' = Raise("NoExistingZoneException")
                       /\ NoZoneRequest(http')
               /\ (last'.response \in ZoneExistsResponses
                   /\ last'.arg \in EmptySlaveLists)
                    => /\ escaped' = Raise("NoSlavesException")
                       /\ NoZoneRequest(http')]_vars

\* add_zone_slave was called with an empty list on a device that has a
\* zone: the zone was fetched, NoSlavesException left the call, and nothing
\* was posted.
C21_EmptyListRefused ==
    /\ last.op = "add_zone_slave"
    /\ last.arg \in EmptySlaveLists
    /\ last.response \in ZoneExistsResponses
    /\ _zone_status # None
    /\ escaped = Raise("NoSlavesException")
    /\ http = <<"/getZone">>


(***************************************************************************)
(* C28: snapshot and restore                                               *)
(***************************************************************************)
\* The answers of /now_playing from which a Status is built, each with the
\* content item of that Status.
ServedContent ==
    {<<response, Status(get(response)).content_item>> :
        response \in {r \in StatusResponses : ~IsRaise(get(r))}}

\* The text is an attribute of the posted element, under the name.
Mentions(body, name, text) ==
    \E i \in 1..Len(body.v) :
        /\ body.v[i] = name
        /\ i + 1 + Len(text.v) <= Len(body.v)
        /\ \A k \in 1..Len(text.v) : body.v[i + 1 + k] = EscapeChar(text.v[k])

\* The posted element is built from the snapshot: its source and each of
\* source account, location and type that the snapshot has.
BuiltFrom(body, item) ==
    /\ item.source # None /\ Mentions(body, "source", item.source)
    /\ truthy(item.source_account)
          => Mentions(body, "sourceAccount", item.source_account)
    /\ truthy(item.location) => Mentions(body, "location", item.location)
    /\ truthy(item.type) => Mentions(body, "type", item.type)

\* C28: snapshot() stores the content item of the freshly fetched status
\* when there is one and keeps the stored snapshot otherwise; restore()
\* posts one select request built from the stored snapshot when there is
\* one and sends nothing when there is none; restore() leaves the stored
\* snapshot as it is.
C28_SnapshotRestored ==
    [][/\ last'.op = "snapshot"
            => _snapshot' =
                  IF \E served \in ServedContent :
                        served[1] = last'.response /\ served[2] # None
                  THEN (CHOOSE served \in ServedContent :
                            served[1] = last'.response)[2]
                  ELSE _snapshot
       /\ last'.op = "restore"
            => /\ _snapshot' = _snapshot
               /\ _snapshot = None => http' = <<>>
               /\ _snapshot # None
                    => /\ http' = <<"/select">>
                       /\ BuiltFrom(last'.body, _snapshot)]_vars

\* A snapshot of the AUX input was restored: one select request was posted
\* with the source and the source account of the snapshot.
C28_AuxRestored ==
    /\ last.op = "restore"
    /\ _snapshot # None
    /\ _snapshot.source = Str(AUX)
    /\ http = <<"/select">>
    /\ BuiltFrom(last.body, _snapshot)
    /\ escaped = None

\* A snapshot exists whose source names no member of Source: restore raised
\* KeyError and posted nothing.
C28_RestoreRaises ==
    /\ last.op = "restore"
    /\ _snapshot # None
    /\ http = <<>>
    /\ escaped = Raise("KeyError")


(***************************************************************************)
(* C27: every start_notification adds a connection                         *)
(***************************************************************************)
\* The step appends one event to the log.
Logged(before, after) ==
    Len(after) = Len(before) + 1 /\ SubSeq(after, 1, Len(before)) = before

\* C27: a call of start_notification creates a new client and a new receive
\* thread and stores the new client in place of the old one, and leaves the
\* threads that run as they are; the stored client is the one of the last
\* call and there are as many threads as calls; whichever thread handles a
\* volume frame assigns the device's one _volume, and whichever thread runs
\* a dispatch calls the entries of the device's one _volume_updated_listeners.
C27_EveryCallNewConnection ==
    [][/\ (_ws_client' # _ws_client \/ Len(threads') # Len(threads))
            => /\ threads' = Append(threads, WebSocketThread)
               /\ _ws_client' # _ws_client
               /\ _ws_client'.py = "WebSocketApp"
               /\ _ws_client'.thread = Len(threads')
               /\ UNCHANGED <<caches, registries>>
       /\ Logged(events, events')
            => LET e == events'[Len(events')]
               IN  /\ e.thread \in 1..Len(threads)
                   /\ (e.event = "_on_message" /\ e.of \in ValidVolumeFrames)
                        => <<e.of, _volume'>> \in ParsedVolumes
                   /\ e.event = "listener"
                        => /\ threads[e.thread].at
                                 \in 1..Len(_volume_updated_listeners)
                           /\ e.of = _volume_updated_listeners[
                                         threads[e.thread].at]
                           /\ e.value = threads[e.thread].value]_vars

\* start_notification was called twice: the stored client is the second
\* one, the second thread has handled a frame and called a listener, and
\* the first thread, started by the first call, is in the middle of a
\* dispatch of a frame of its own connection.
C27_TwoLoopsDeliver ==
    /\ Len(threads) = 2
    /\ _ws_client.thread = 2
    /\ threads[2].frame = 1
    /\ threads[2].state = "receiving"
    /\ \E i \in 1..Len(events) :
          events[i].thread = 2 /\ events[i].event = "listener"
    /\ threads[1].state = "dispatching"
    /\ events[Len(events)].thread = 1
    /\ events[Len(events)].event = "listener"
    /\ _volume = threads[1].value
    /\ _volume # threads[2].value


(***************************************************************************)
(* C24: a dispatch while the registry changes                              *)
(***************************************************************************)
\* The callbacks thread t called for the frame it is handling, in order.
InvokedFor(log, t, frame) ==
    LET made == SelectSeq(log, LAMBDA e : /\ e.thread = t
                                          /\ e.frame = frame
                                          /\ e.event = "listener")
    IN  [i \in 1..Len(made) |-> made[i].of]

\* The entries of a list that were neither registered nor unregistered
\* while the dispatch ran.
Untouched(list, touched) == SelectSeq(list, LAMBDA x : x \notin touched)

\* C24: when a dispatch ends, the callbacks that were registered when it
\* started and were not themselves registered or unregistered meanwhile
\* have each been invoked once per registration, in registration order,
\* whatever other entries of the category were registered or unregistered
\* while the dispatch ran.
C24_StableEntriesInvoked ==
    [][\A t \in 1..Len(threads) :
          (threads[t].state = "dispatching"
           /\ threads'[t].state # "dispatching")
             => Untouched(InvokedFor(events', t, threads[t].frame),
                          threads[t].touched)
                = Untouched(threads[t].initial, threads[t].touched)]_vars

\* A dispatch started with [on_update, on_update_raises]; on_update was
\* called and then unregistered; the dispatch ended without an exception
\* and without calling on_update_raises, which is still registered.
C24_StableEntrySkipped ==
    /\ Len(threads) = 1
    /\ threads[1].state = "receiving"
    /\ threads[1].error = None
    /\ threads[1].frame = 1
    /\ threads[1].arrivals = <<"volume_36">>
    /\ InvokedFor(events, 1, 1) = <<"on_update">>
    /\ last.op = "remove_volume_listener"
    /\ last.arg = "on_update"
    /\ _volume_updated_listeners = <<"on_update_raises">>


(***************************************************************************)
(* C22: refresh_volume beside a volumeUpdated dispatch                     *)
(***************************************************************************)
\* The application's last call was a refresh_volume that has returned, and
\* the receive thread has handled every frame the device sent, a volume
\* among them, and waits for the next.
RefreshAndDispatchDone ==
    /\ caller = Idle
    /\ last.op = "refresh_volume"
    /\ last.response = "set"
    /\ Len(threads) = 1
    /\ threads[1].state = "receiving"
    /\ threads[1].frame = Len(threads[1].arrivals)
    /\ \E i \in 1..Len(threads[1].arrivals) :
          threads[1].arrivals[i] \in VolumeMessages

\* C22: once a refresh_volume of the application's thread and the
\* dispatches of the receive thread have completed, the cached volume is
\* the volume the device has: the most recent one, whichever of the two
\* threads wrote last.
C22_CacheIsLatest == RefreshAndDispatchDone => _volume = Volume(VolumeServed)

\* Both have completed and the cache holds the volume that was fetched
\* before the device announced the one it has now.
C22_StaleVolumeCached ==
    /\ RefreshAndDispatchDone
    /\ threads[1].arrivals = <<"volume_36", "volume_muted">>
    /\ _volume = Volume(parseString("volume_36"))
    /\ _volume # Volume(VolumeServed)


(***************************************************************************)
(* C23: the preset list while two threads rebuild it                       *)
(***************************************************************************)
\* The preset lists of the two source documents: the frame the device
\* pushed and the document it served.
PushedPresets == PresetsOf("presets_three")

FetchedPresets ==
    [py |-> "list",
     items |-> Presets(_get_dom_elements(get("presets_two"), "preset").items)]

CompleteLists == {PushedPresets, FetchedPresets}

\* No thread is between the assignment of the empty list and its last
\* append.
NoRebuildRunning ==
    /\ caller = Idle
    /\ \A t \in 1..Len(threads) : threads[t].state # "rebuilding"

\* C23: presets(refresh=False) never returns an empty or partly filled
\* list, and once no rebuild is running the cached list is the list of
\* exactly one of the two source documents.
C23_PresetsReplacedWhole ==
    /\ (last.op = "presets" /\ last.response = "returned")
          => last.seen \in CompleteLists
    /\ (NoRebuildRunning /\ _presets # None) => _presets \in CompleteLists

\* Both rebuilds are over and the cached list holds presets of the pushed
\* frame and presets of the fetched document.
C23_ListsMixed ==
    /\ NoRebuildRunning
    /\ _presets # None
    /\ \E i, j \in 1..Len(_presets.items) :
          /\ \E k \in 1..Len(PushedPresets.items) :
                _presets.items[i] = PushedPresets.items[k]
          /\ \E k \in 1..Len(FetchedPresets.items) :
                _presets.items[j] = FetchedPresets.items[k]

\* presets(refresh=False) returned a list that the receive thread was
\* filling: it holds one preset of the three of the frame.
C23_PartialListRead ==
    /\ last.op = "presets"
    /\ last.response = "returned"
    /\ Len(last.seen.items) = 1
    /\ last.seen.items[1] = PushedPresets.items[1]


(***************************************************************************)
(* C25: the cache is written before the listeners run                      *)
(***************************************************************************)
\* C25: when a dispatch starts the field of its category holds the value
\* the listeners are about to be passed, and every callback that reads the
\* cached value of its category while it runs sees the value it was
\* passed.
C25_ReaderSeesPassedValue ==
    /\ \A t \in 1..Len(threads) :
          (threads[t].state = "dispatching" /\ threads[t].at = 1)
             => cached(threads[t].field) = threads[t].value
    /\ \A i \in 1..Len(events) :
          (events[i].event = "listener" /\ ListenerReads(events[i].of))
             => events[i].seen = events[i].value

\* A volume listener read volume(refresh=False) while it ran and saw the
\* Volume it was passed, which is the cached one.
C25_VolumeReaderAgrees ==
    \E i \in 1..Len(events) :
        /\ events[i].event = "listener"
        /\ ListenerReads(events[i].of)
        /\ events[i].value # None
        /\ events[i].value.py = "Volume"
        /\ events[i].seen = events[i].value
        /\ _volume = events[i].value

\* A zone listener was passed None, read zone_status(refresh=False) while
\* it ran, and saw the zone of a second fetch.
C25_ZoneReaderRefetches ==
    \E i \in 1..Len(events) :
        /\ events[i].event = "listener"
        /\ ListenerReads(events[i].of)
        /\ events[i].value = None
        /\ events[i].seen # None
        /\ events[i].seen.py = "ZoneStatus"
        /\ _zone_status = events[i].seen

=============================================================================
